---- MODULE Spec2Model ----
(***************************************************************************)
(* Gopher navigation of NavFEP-Browser: ProtocolActions.handle_gopher_      *)
(* request (src/actions/protocol_actions.py) as it is called from the URL   *)
(* bar (EventHandlersMixin._processar_navegacao) and from new tabs          *)
(* (TabManagerMixin.adicionar_nova_aba).                                    *)
(*                                                                         *)
(* Text is a sequence of one-character strings; bytes are sequences of      *)
(* integers 0..255.  One navigation is one call of handle_gopher_request;   *)
(* the call is cut at its blocking socket calls (create_connection,         *)
(* sendall, recv), whose outcome the network decides.                       *)
(***************************************************************************)
EXTENDS Integers, Sequences, FiniteSets, TLC

VARIABLES nav, started, uiThread, sockets, nextSock, escaped, menu, image,
          win, hist, proxy, icpt, ai, tamper, marks

\* the state of the gopher handler and its renderers
gopherVars == <<nav, started, uiThread, sockets, nextSock, escaped, menu, image>>

\* the state of the rest of the browser: the window and its tabs, the
\* history, the proxies, a request interceptor, the AI worker, a tamper
\* dialog and the bookmarks
appVars == <<win, hist, proxy, icpt, ai, tamper, marks>>

vars == <<nav, started, uiThread, sockets, nextSock, escaped, menu, image,
          win, hist, proxy, icpt, ai, tamper, marks>>

(***************************************************************************)
(* Bounds of the model.                                                     *)
(***************************************************************************)
\* number of navigations the user issues
MaxNavs == 2
\* number of chunks a server sends before it closes or goes silent
MaxResp == 2

NavIds == 1..MaxNavs

(***************************************************************************)
(* Text helpers: Python's str.startswith, str.split(sep), sep.join(parts),  *)
(* str.encode('utf-8') and int(str) restricted to the model's alphabet.     *)
(***************************************************************************)
StartsWith(s, p) == Len(s) >= Len(p) /\ SubSeq(s, 1, Len(p)) = p

DropFirst(s, k) == SubSeq(s, k + 1, Len(s))

RECURSIVE SplitFrom(_, _, _)
SplitFrom(s, sep, cur) ==
    IF s = <<>> THEN <<cur>>
    ELSE IF StartsWith(s, sep)
         THEN <<cur>> \o SplitFrom(DropFirst(s, Len(sep)), sep, <<>>)
         ELSE SplitFrom(Tail(s), sep, Append(cur, Head(s)))

\* s.split(sep): non-overlapping occurrences, left to right
Split(s, sep) == SplitFrom(s, sep, <<>>)

RECURSIVE Join(_, _)
\* sep.join(parts)
Join(parts, sep) ==
    IF parts = <<>> THEN <<>>
    ELSE IF Len(parts) = 1 THEN parts[1]
         ELSE parts[1] \o sep \o Join(Tail(parts), sep)

\* sep in s
Contains(s, sep) == \E i \in 1..Len(s) : StartsWith(DropFirst(s, i - 1), sep)

Digits == {"0", "1", "7"}

DigitVal(c) == CASE c = "0" -> 0 [] c = "1" -> 1 [] c = "7" -> 7

RECURSIVE DigitsVal(_, _)
DigitsVal(s, acc) ==
    IF s = <<>> THEN acc ELSE DigitsVal(Tail(s), 10 * acc + DigitVal(Head(s)))

IsDigits(s) == s # <<>> /\ \A i \in 1..Len(s) : s[i] \in Digits

\* int(s) accepts an optional sign followed by decimal digits
IntParses(s) ==
    \/ IsDigits(s)
    \/ s # <<>> /\ s[1] \in {"-", "+"} /\ IsDigits(Tail(s))

IntOf(s) ==
    IF s[1] = "-" THEN 0 - DigitsVal(Tail(s), 0)
    ELSE IF s[1] = "+" THEN DigitsVal(Tail(s), 0)
    ELSE DigitsVal(s, 0)

\* UTF-8 code units of one character; "U+00E9" stands for the one
\* non-ASCII character of the alphabet
Utf8Char(c) ==
    CASE c = "g" -> <<103>> [] c = "o" -> <<111>> [] c = "p" -> <<112>>
      [] c = "h" -> <<104>> [] c = "e" -> <<101>> [] c = "r" -> <<114>>
      [] c = "t" -> <<116>> [] c = "y" -> <<121>> [] c = "a" -> <<97>>
      [] c = "b" -> <<98>>  [] c = "x" -> <<120>> [] c = "I" -> <<73>>
      [] c = "0" -> <<48>>  [] c = "1" -> <<49>>  [] c = "7" -> <<55>>
      [] c = ":" -> <<58>>  [] c = "/" -> <<47>>  [] c = "?" -> <<63>>
      [] c = "_" -> <<95>>  [] c = "=" -> <<61>>  [] c = "-" -> <<45>>
      [] c = "U+00E9" -> <<195, 169>>

RECURSIVE Utf8(_)
\* s.encode('utf-8')
Utf8(s) == IF s = <<>> THEN <<>> ELSE Utf8Char(Head(s)) \o Utf8(Tail(s))

CRLF == <<13, 10>>

(***************************************************************************)
(* URL inputs.  A well-formed input is written from its literal components *)
(* gopher://host[:port][/selector][?gopher_type=T]; Absent marks a          *)
(* component that is left out.                                              *)
(***************************************************************************)
Absent == <<"<absent>">>
None == <<"<None>">>

Scheme == <<"g", "o", "p", "h", "e", "r", ":", "/", "/">>
TypeMark == <<"?", "g", "o", "p", "h", "e", "r", "_", "t", "y", "p", "e", "=">>

Hosts == {<<"h">>}
Paths == {<<>>, <<"/">>, <<"/", "a">>, <<"/", "a", "/", "/", "b">>,
          <<"/", "U+00E9", ":", "b">>}
\* port texts that are no port number, each tried on one URL
OddPortTexts == {<<"0">>, <<"7", "0", "0", "0", "0">>, <<"-", "1">>, <<"x">>}
\* gopher_type values other than one image type, each tried on one URL
OddTypeTexts == {<<"1">>, <<"I", "g">>}

Literals ==
    [host : Hosts, port : {Absent}, path : Paths, typ : {Absent, <<"I">>}]
    \cup [host : Hosts, port : {<<"7", "0">>}, path : {<<>>, <<"/", "a">>}, typ : {Absent}]
    \cup [host : Hosts, port : OddPortTexts, path : {<<"/">>}, typ : {Absent}]
    \cup [host : Hosts, port : {Absent}, path : {<<"/", "a">>}, typ : OddTypeTexts]

\* a string that has the gopher scheme but no "//"
NoLiteral == [host |-> Absent, port |-> Absent, path |-> Absent, typ |-> Absent]

UrlOf(lit) ==
    IF lit = NoLiteral THEN <<"g", "o", "p", "h", "e", "r", ":", "h">>
    ELSE Scheme \o lit.host
         \o (IF lit.port = Absent THEN <<>> ELSE <<":">> \o lit.port)
         \o lit.path
         \o (IF lit.typ = Absent THEN <<>> ELSE TypeMark \o lit.typ)

(***************************************************************************)
(* handle_gopher_request, lines 45-57: the URL is cut at "?gopher_type=",   *)
(* then split on "//", "/" and ":".                                         *)
(***************************************************************************)
\* lines 46-50
StripType(url) ==
    IF Contains(url, TypeMark)
    THEN [url |-> Split(url, TypeMark)[1], gopher_type |-> Split(url, TypeMark)[2]]
    ELSE [url |-> url, gopher_type |-> None]

\* lines 53-57; exc is the exception the statement raises
ParseGopherUrl(url0) ==
    LET st == StripType(url0)
        url == st.url
        bySlashes == Split(url, <<"/", "/">>)
    IN  IF Len(bySlashes) < 2
        THEN [exc |-> "IndexError"]
        ELSE LET parts == Split(bySlashes[2], <<"/">>)
                 host_port == Split(parts[1], <<":">>)
             IN  IF Len(host_port) > 1 /\ ~IntParses(host_port[2])
                 THEN [exc |-> "ValueError"]
                 ELSE [exc |-> "none",
                       url |-> url,
                       gopher_type |-> st.gopher_type,
                       host |-> host_port[1],
                       port |-> IF Len(host_port) > 1 THEN IntOf(host_port[2]) ELSE 70,
                       selector |-> IF Len(parts) > 1
                                    THEN <<"/">> \o Join(Tail(parts), <<"/">>)
                                    ELSE <<>>]

\* the inputs of the model with their URL string and what lines 45-57 make
\* of it
Inputs == Literals \cup {NoLiteral}
UrlTable == [lit \in Inputs |-> UrlOf(lit)]
ParseTable == [lit \in Inputs |-> ParseGopherUrl(UrlOf(lit))]

(***************************************************************************)
(* State of one navigation.                                                 *)
(***************************************************************************)
InProgress == {"Connecting", "Requesting", "Reading"}
Terminal == {"Rendered", "Errored"}

\* the exceptions the stages of a navigation raise; all derive from Exception
ParseErrors == {"IndexError", "ValueError"}
ConnectErrors == {"ConnectionRefusedError", "gaierror", "timeout"}
WriteErrors == {"BrokenPipeError", "timeout"}
ReadErrors == {"ConnectionResetError", "timeout"}
OSErrors == {"ConnectionRefusedError", "gaierror", "timeout", "BrokenPipeError",
             "ConnectionResetError"}
Exceptions == ParseErrors \cup OSErrors

Servers == {"finite", "streaming"}

\* response chunks a server sends (bytes)
Chunks == {<<105, 65>>, <<10>>}

\* no renderer has been called
NoCall == [fn |-> "none", data |-> <<>>, gopher_type |-> None, host |-> <<>>,
           port |-> 0]

Fresh == [state |-> "Idle", url |-> <<>>, lit |-> NoLiteral,
          base |-> <<>>, gopher_type |-> None, host |-> <<>>, port |-> 0,
          selector |-> <<>>, server |-> "none", sock |-> 0, connects |-> 0,
          sends |-> 0, sent |-> <<>>, response_data |-> <<>>, overflow |-> 0,
          exc |-> "none", sink |-> "none", renderer |-> "none",
          sinkBase |-> None, sinkCalls |-> 0, chunks |-> <<>>, call |-> NoCall]

\* a call of _parse_gopher_map_to_html: the lines of the response text (each
\* with the components it was written from), the arguments current_host and
\* current_port, and, once it has returned, html_lines and the joined document
MenuStart == [items |-> <<>>, current_host |-> <<"h">>, current_port |-> 70,
              returned |-> FALSE, html_lines |-> <<>>, html |-> <<>>]

\* a call of _parse_image_to_html: its arguments and the document it returns
ImageStart == [image_data |-> <<>>, gopher_type |-> None, returned |-> FALSE,
               html |-> <<>>]

(***************************************************************************)
(* The window: the QTabWidget self.tabs and the widgets of the toolbars     *)
(* that the slots of the tabs update (src/browser_core/tab_manager.py,      *)
(* event_handlers.py, src/actions/privacy_actions.py, and the same methods  *)
(* of Navegador in src/main.py).  A window w is a record; a handler is an   *)
(* operator from the window before the call to the window after it, with    *)
(* the slots that Qt runs inside the call (currentChanged -> aba_alterada,  *)
(* toggled -> toggle_blocker) applied in place.  Tab indices are Qt's:      *)
(* 0 .. count-1, and -1 for no tab.                                         *)
(***************************************************************************)
\* number of tabs that are open at once
MaxTabs == 3

\* a new widget of a tab; an UrlInterceptor starts with blocking_enabled
\* False (interceptor.py line 34), a WebView with an empty url()
NewTab(kind, label) ==
    [kind |-> kind, label |-> label, url |-> "", blocking_enabled |-> FALSE]

\* the window before the first tab is added
EmptyWindow ==
    [tabs |-> <<>>,
     current |-> -1,
     btn_blocker |-> [enabled |-> TRUE, checked |-> FALSE, text |-> "Block"],
     progress_bar |-> [value |-> -1, visible |-> FALSE],
     url_bar |-> "",
     security |-> "",
     last |-> [op |-> "", tab |-> -1, arg |-> "", before |-> <<>>]]

\* what a handler can change of a window
Snapshot(w) ==
    [tabs |-> w.tabs, current |-> w.current, btn_blocker |-> w.btn_blocker,
     progress_bar |-> w.progress_bar, url_bar |-> w.url_bar, security |-> w.security]

\* the window w2 that the call op(arg) on tab left of the window w, with
\* the call and the window before it on record
Call(w, op, tab, arg, w2) ==
    [w2 EXCEPT !.last = [op |-> op, tab |-> tab, arg |-> arg, before |-> Snapshot(w)]]

\* self.tabs.count()
Count(w) == Len(w.tabs)

\* self.tabs.widget(index) exists
ValidIndex(w, index) == index >= 0 /\ index < Count(w)

\* isinstance(self.tabs.widget(index), WebView)
IsWebView(w, index) == ValidIndex(w, index) /\ w.tabs[index + 1].kind = "WebView"

\* QUrl(url).scheme()
SchemeOfUrl(url) ==
    CASE url = "https://f3l1p3.neocities.org" -> "https"
      [] url = "https://a" -> "https"
      [] url = "http://b" -> "http"
      [] url = "gopher://c" -> "gopher"
      [] url = "about:blank" -> "about"
      [] OTHER -> ""

\* as if atualizar_url_bar had no guard on the tab
IsCurrent_Always(w, b) == TRUE

\* browser == self.aba_atual()
IsCurrent(w, b) == b = w.current

\* atualizar_url_bar(qurl, browser), event_handlers.py lines 124-169; the
\* security indicator is known by its tooltip
atualizar_url_bar(w, qurl, b) ==
    IF ~IsCurrent(w, b) THEN w
    ELSE [w EXCEPT
            !.security =
                CASE SchemeOfUrl(qurl) = "https" -> "Conexao segura (HTTPS)"
                  [] SchemeOfUrl(qurl) = "http" -> "Conexao nao segura (HTTP)"
                  [] SchemeOfUrl(qurl) = "gopher" -> "Navegando em Gopherspace"
                  [] OTHER -> "Protocolo: " \o SchemeOfUrl(qurl),
            !.url_bar = qurl]

\* inicio_carregamento(browser), lines 92-100
inicio_carregamento(w, b) ==
    IF IsCurrent(w, b)
    THEN [w EXCEPT !.progress_bar = [value |-> 0, visible |-> TRUE]]
    ELSE w

\* fim_carregamento(ok, browser), lines 103-111
fim_carregamento(w, ok, b) ==
    IF IsCurrent(w, b) THEN [w EXCEPT !.progress_bar.visible = FALSE] ELSE w

\* atualizar_progresso(progress, browser), lines 114-122
atualizar_progresso(w, progress, b) ==
    IF IsCurrent(w, b) THEN [w EXCEPT !.progress_bar.value = progress] ELSE w

\* as if toggle_blocker wrote the flag of the first tab
BlockerTarget_FirstTab(w) == 0

\* the tab whose interceptor toggle_blocker writes: self.aba_atual()
BlockerTarget(w) == w.current

RECURSIVE setChecked(_, _), toggle_blocker(_, _), atualizar_botao_blocker(_)
\* self.btn_blocker.setChecked(checked): a change of the checked state
\* emits toggled, which is connected to toggle_blocker (main.py line 221)
setChecked(w, checked) ==
    IF w.btn_blocker.checked = checked THEN w
    ELSE toggle_blocker([w EXCEPT !.btn_blocker.checked = checked], checked)

\* toggle_blocker(checked), privacy_actions.py lines 53-65
toggle_blocker(w, checked) ==
    atualizar_botao_blocker(
        IF IsWebView(w, BlockerTarget(w))
        THEN [w EXCEPT !.tabs[BlockerTarget(w) + 1].blocking_enabled = checked]
        ELSE w)

\* atualizar_botao_blocker(), privacy_actions.py lines 67-92
atualizar_botao_blocker(w) ==
    IF IsWebView(w, w.current)
    THEN IF w.tabs[w.current + 1].blocking_enabled
         THEN setChecked([w EXCEPT !.btn_blocker.enabled = TRUE,
                                   !.btn_blocker.text = "Block ON"], TRUE)
         ELSE setChecked([w EXCEPT !.btn_blocker.enabled = TRUE,
                                   !.btn_blocker.text = "Block OFF"], FALSE)
    ELSE [w EXCEPT !.btn_blocker.text = "Block", !.btn_blocker.enabled = FALSE]

\* aba_alterada(index), event_handlers.py lines 29-78 (the buttons other
\* than btn_blocker are left out)
aba_alterada(w, index) ==
    LET is_webview == IsWebView(w, index)
        is_split_editor == ValidIndex(w, index) /\ w.tabs[index + 1].kind = "SplitEditor"
        is_plain_text_edit == ValidIndex(w, index) /\ w.tabs[index + 1].kind = "HtmlEditor"
        is_editor == is_split_editor \/ is_plain_text_edit
        is_source_view == is_plain_text_edit /\ ~is_editor
        w1 == [w EXCEPT !.btn_blocker.enabled = is_webview]
        w2 == IF is_webview THEN atualizar_url_bar(w1, w1.tabs[index + 1].url, index)
              ELSE IF is_source_view THEN [w1 EXCEPT !.url_bar = "about:source"]
              ELSE IF is_editor
              THEN [w1 EXCEPT !.url_bar = "editor:" \o w1.tabs[index + 1].label]
              ELSE w1
    IN  atualizar_botao_blocker(w2)

\* self.tabs.setCurrentIndex(index): a change emits currentChanged, which
\* is connected to aba_alterada (main.py line 131)
setCurrentIndex(w, index) ==
    IF ~ValidIndex(w, index) \/ index = w.current THEN w
    ELSE aba_alterada([w EXCEPT !.current = index], index)

\* self.tabs.addTab(widget, label): the first tab of an empty QTabWidget
\* becomes the current one
addTab(w, tab) ==
    IF Count(w) = 0
    THEN aba_alterada([w EXCEPT !.tabs = <<tab>>, !.current = 0], 0)
    ELSE [w EXCEPT !.tabs = Append(@, tab)]

\* self.tabs.removeTab(index): nothing for an index that names no tab; when
\* the current tab goes, the tab to its right (or the last one) becomes the
\* current one; a tab that goes left of the current one shifts its index
removeTab(w, index) ==
    IF ~ValidIndex(w, index) THEN w
    ELSE LET rest == [i \in 1..(Count(w) - 1) |->
                         IF i <= index THEN w.tabs[i] ELSE w.tabs[i + 1]]
             newIndex == IF index < w.current THEN w.current - 1
                         ELSE IF index = w.current
                         THEN (IF index <= Len(rest) - 1 THEN index ELSE Len(rest) - 1)
                         ELSE w.current
         IN  IF index <= w.current
             THEN aba_alterada([w EXCEPT !.tabs = rest, !.current = newIndex], newIndex)
             ELSE [w EXCEPT !.tabs = rest]

\* browser.setUrl(url): the page takes the URL and emits urlChanged, which
\* is connected to atualizar_url_bar (tab_manager.py line 60)
setUrl(w, b, url) ==
    IF w.tabs[b + 1].url = url THEN w
    ELSE atualizar_url_bar([w EXCEPT !.tabs[b + 1].url = url], url, b)

\* _criar_nova_aba_webview(label), tab_manager.py lines 24-83
criar_nova_aba_webview(w, label) ==
    setCurrentIndex(addTab(w, NewTab("WebView", label)), Count(w))

\* adicionar_nova_aba(url, label), tab_manager.py lines 85-114; a gopher
\* URL goes to handle_gopher_request, which leaves the window as it is
\* until its document is loaded
adicionar_nova_aba(w, url, label) ==
    LET url_obj == IF url # "None" THEN url ELSE "about:blank"
        w1 == criar_nova_aba_webview(w, label)
    IN  IF SchemeOfUrl(url_obj) = "gopher" THEN w1
        ELSE setUrl(w1, Count(w), url_obj)

\* abrir_editor_html(content, title), tab_manager.py lines 166-182
abrir_editor_html(w, title) ==
    setCurrentIndex(addTab(w, NewTab("SplitEditor", title)), Count(w))

\* abrir_aba_codigo_fonte(html), tab_manager.py lines 185-202
abrir_aba_codigo_fonte(w) ==
    setCurrentIndex(addTab(w, NewTab("HtmlEditor", "C[U+00F3]digo-Fonte")), Count(w))

\* abrir_aba_historico(), history_actions.py lines 84-135
abrir_aba_historico(w) ==
    IF \E i \in 0..(Count(w) - 1) : w.tabs[i + 1].label = "Hist[U+00F3]rico"
    THEN setCurrentIndex(w, CHOOSE i \in 0..(Count(w) - 1) :
                                /\ w.tabs[i + 1].label = "Hist[U+00F3]rico"
                                /\ \A j \in 0..(i - 1) :
                                      w.tabs[j + 1].label # "Hist[U+00F3]rico")
    ELSE setCurrentIndex(addTab(w, NewTab("QWidget", "Hist[U+00F3]rico")), Count(w))

\* as if fechar_aba had no guard on the number of tabs
fechar_aba_NoGuard(w, index) == removeTab(w, index)

\* fechar_aba(index), tab_manager.py lines 125-141
fechar_aba(w, index) == IF Count(w) < 2 THEN w ELSE removeTab(w, index)

\* Navegador.__init__, main.py lines 62-71: the window opens with the home
\* page in its only tab
WinStart ==
    Call(EmptyWindow, "__init__", 0, "https://f3l1p3.neocities.org",
         adicionar_nova_aba(EmptyWindow, "https://f3l1p3.neocities.org",
                            "P[U+00E1]gina Inicial"))
\* HistoryActions: self.history is empty (main.py line 112) and so is the
\* history file; an entry is known by its url and titulo (its timestamp is
\* left out)
HistStart ==
    [history |-> <<>>, file |-> <<>>,
     last |-> [op |-> "", url |-> "", history |-> <<>>, file |-> <<>>]]
\* QNetworkProxy.NoProxy
NoProxy == [type |-> "NoProxy", host |-> "", port |-> 0]

\* FileMenuActions: no proxy is saved and none is in use (main.py lines
\* 105-106); run is the record of the application proxies that the
\* trocar_proxy calls have set since one of them found the index at -1
ProxyStart ==
    [proxy_list |-> <<>>, current_proxy_index |-> -1, application_proxy |-> NoProxy,
     proxy_status_message |-> "", file |-> <<>>, run |-> <<>>, in_run |-> FALSE,
     last |-> ""]
\* an UrlInterceptor and the request it has handled last: the host of
\* the request, the payloads it emitted with requestIntercepted, and
\* whether info.block(True) was called
IcptStart ==
    [blocklist |-> {}, blocking_enabled |-> FALSE, handled |-> FALSE, host |-> <<>>,
     emitted |-> <<>>, block_called |-> FALSE]
\* AIActions: no prompt has been processed; self.thread and self.worker
\* are those of run current (0: none).  A run is one WorkerIA with its
\* QThread; emitted lists the signals its rodar has emitted.
AiStart ==
    [api_key |-> "", panel |-> "", current |-> 0, prompts |-> 0, aborted |-> FALSE,
     runs |-> <<>>]
\* TamperDialog.__init__: the send button is enabled, both outputs are
\* empty and nothing has been sent.  A run is one RequestWorker with its
\* QThread; self.thread and self.worker are those of run current.  events
\* is what the worker threads have queued for the thread of the dialog.
TamperStart ==
    [send_button |-> TRUE, sent_output |-> "", received_output |-> "",
     runs |-> <<>>, current |-> 0, events |-> <<>>, aborted |-> FALSE]
\* main.py line 108: self.bookmarks = {}, a dict of title -> URL kept
\* here as its items in insertion order; no bookmarks file exists yet
MarksStart ==
    [bookmarks |-> <<>>, file |-> <<>>, toolbar |-> <<>>,
     btn_toggle_favorito |-> "Salvar",
     last |-> [op |-> "", page |-> [webview |-> FALSE, titulo |-> "", url |-> ""],
               before |-> <<>>]]

Init ==
    /\ nav = [n \in NavIds |-> Fresh]
    /\ started = 0
    /\ uiThread = 0
    /\ sockets = {}
    /\ nextSock = 1
    /\ escaped = FALSE
    /\ menu = MenuStart
    /\ image = ImageStart
    /\ win = WinStart
    /\ hist = HistStart
    /\ proxy = ProxyStart
    /\ icpt = IcptStart
    /\ ai = AiStart
    /\ tamper = TamperStart
    /\ marks = MarksStart

(***************************************************************************)
(* The caller: handle_gopher_request is called directly, as an ordinary     *)
(* method call, from the slot that the UI thread runs.  uiThread is the      *)
(* navigation whose handle_gopher_request call the UI thread is inside, 0    *)
(* when the UI thread is back in its event loop.                            *)
(***************************************************************************)
\* as if the call were handed to a worker and the slot returned at once
UIThreadFree_Always == TRUE

UIThreadFree == uiThread = 0

\* _processar_navegacao, line 264; adicionar_nova_aba, line 111
OriginAccepts(origin, url) ==
    IF origin = "urlbar" THEN StartsWith(url, Scheme)
    ELSE StartsWith(url, <<"g", "o", "p", "h", "e", "r", ":">>)

\* as if line 80 read: except OSError
HandlerCatches_OnlyOSError(e) == e \in OSErrors

\* line 80: except Exception
HandlerCatches(e) == e \in Exceptions

\* lines 80-82: the navigation r ends with exception e raised in the try block
Raise(r, e) ==
    IF HandlerCatches(e)
    THEN [r EXCEPT !.state = "Errored", !.exc = e, !.sink = "error",
                   !.sinkCalls = @ + 1]
    ELSE [r EXCEPT !.state = "Faulted", !.exc = e]

\* as if the socket were closed by a close() call after the read loop only
WithExit_LeakOnRaise(socks, r, raised) == IF raised THEN socks ELSE socks \ {r.sock}

\* line 60: leaving the with block closes the socket, raised or not
WithExit(socks, r, raised) == socks \ {r.sock}

\* as if the selector were taken from the URL before line 49 cut the query off
RequestBytes_WithQuery(r) ==
    Utf8(r.selector \o (IF r.gopher_type = None THEN <<>> ELSE TypeMark \o r.gopher_type))
    \o CRLF

\* line 61: the argument of the one sendall call
RequestBytes(r) == Utf8(r.selector) \o CRLF

\* as if line 70 read: if gopher_type:
IsImageType_AnyType(t) == t # None

\* line 70
IsImageType(t) == t \in {<<"g">>, <<"I">>, <<"p">>}

\* lines 70-76: the renderer that is called and what it is given; line 75
\* decodes the bytes before the menu renderer reads them
RenderCall(r) ==
    IF IsImageType(r.gopher_type)
    THEN [fn |-> "_parse_image_to_html", data |-> r.response_data,
          gopher_type |-> r.gopher_type, host |-> <<>>, port |-> 0]
    ELSE [fn |-> "_parse_gopher_map_to_html", data |-> r.response_data,
          gopher_type |-> None, host |-> r.host, port |-> r.port]

\* as if line 67 read: response_data = chunk + response_data
Accumulate_Prepend(data, chunk) == chunk \o data

\* line 67: response_data += chunk
Accumulate(data, chunk) == data \o chunk

\* the locals of a call that has returned are gone; its counters stay
Archive(r) ==
    IF r.state \in Terminal \cup {"Faulted"}
    THEN [Fresh EXCEPT !.state = r.state, !.sock = r.sock, !.connects = r.connects,
                       !.sends = r.sends, !.sinkCalls = r.sinkCalls]
    ELSE r

\* lines 44-57: the call starts, the URL is parsed
HandleGopherRequest(n, origin, lit) ==
    LET url == UrlTable[lit]
        p == ParseTable[lit]
        r0 == [Fresh EXCEPT !.url = url, !.lit = lit]
        old == [m \in NavIds |-> Archive(nav[m])]
    IN  /\ n = started + 1
        /\ n \in NavIds
        /\ UIThreadFree
        /\ OriginAccepts(origin, url)
        /\ started' = n
        /\ IF p.exc # "none"
           THEN /\ nav' = [old EXCEPT ![n] = Raise(r0, p.exc)]
                /\ escaped' = (escaped \/ ~HandlerCatches(p.exc))
                /\ uiThread' = 0
           ELSE /\ nav' = [old EXCEPT ![n] =
                              [r0 EXCEPT !.state = "Connecting", !.base = p.url,
                                         !.gopher_type = p.gopher_type,
                                         !.host = p.host, !.port = p.port,
                                         !.selector = p.selector]]
                /\ escaped' = escaped
                /\ uiThread' = n
        /\ UNCHANGED <<sockets, nextSock, menu, image, appVars>>

\* navegar_para_url -> _processar_navegacao
NavigateUrlBar(n, lit) == HandleGopherRequest(n, "urlbar", lit)

\* adicionar_nova_aba (new tab, bookmark button, history item)
NavigateNewTab(n, lit) == HandleGopherRequest(n, "newtab", lit)

\* as if the read loop started without the selector having been sent
ConnectOk_SkipRequest(n, srv) ==
    /\ uiThread = n
    /\ nav[n].state = "Connecting"
    /\ nav' = [nav EXCEPT ![n].state = "Reading", ![n].sock = nextSock,
                          ![n].connects = @ + 1, ![n].server = srv]
    /\ sockets' = sockets \cup {nextSock}
    /\ nextSock' = nextSock + 1
    /\ UNCHANGED <<started, uiThread, escaped, menu, image, appVars>>

\* line 60: create_connection returns a socket connected to a server that
\* behaves as srv
ConnectOk(n, srv) ==
    /\ uiThread = n
    /\ nav[n].state = "Connecting"
    /\ nav' = [nav EXCEPT ![n].state = "Requesting", ![n].sock = nextSock,
                          ![n].connects = @ + 1, ![n].server = srv]
    /\ sockets' = sockets \cup {nextSock}
    /\ nextSock' = nextSock + 1
    /\ UNCHANGED <<started, uiThread, escaped, menu, image, appVars>>

\* as if a failed connection were tried again
ConnectFail_Retry(n, e) ==
    /\ uiThread = n
    /\ nav[n].state = "Connecting"
    /\ nav' = [nav EXCEPT ![n].connects = @ + 1]
    /\ UNCHANGED <<started, uiThread, sockets, nextSock, escaped, menu, image, appVars>>

\* line 60: create_connection raises
ConnectFail(n, e) ==
    /\ uiThread = n
    /\ nav[n].state = "Connecting"
    /\ nav' = [nav EXCEPT ![n] = Raise([nav[n] EXCEPT !.connects = @ + 1], e)]
    /\ escaped' = (escaped \/ ~HandlerCatches(e))
    /\ uiThread' = 0
    /\ UNCHANGED <<started, sockets, nextSock, menu, image, appVars>>

\* line 61: sendall returns; sent is what the call was given to write
SendOk(n) ==
    /\ uiThread = n
    /\ nav[n].state = "Requesting"
    /\ nav' = [nav EXCEPT ![n].state = "Reading", ![n].sends = @ + 1,
                          ![n].sent = @ \o RequestBytes(nav[n])]
    /\ UNCHANGED <<started, uiThread, sockets, nextSock, escaped, menu, image, appVars>>

\* line 61: sendall raises, having been given the same bytes
SendFail(n, e) ==
    /\ uiThread = n
    /\ nav[n].state = "Requesting"
    /\ nav' = [nav EXCEPT ![n] =
                  Raise([nav[n] EXCEPT !.sends = @ + 1,
                                       !.sent = @ \o RequestBytes(nav[n])], e)]
    /\ sockets' = WithExit(sockets, nav[n], TRUE)
    /\ escaped' = (escaped \/ ~HandlerCatches(e))
    /\ uiThread' = 0
    /\ UNCHANGED <<started, nextSock, menu, image, appVars>>

\* lines 64-67: recv returns a chunk; chunks lists what recv has returned.
\* response_data is kept exactly up to MaxResp chunks; what a server that never stops sends after that is only
\* counted, modulo 2
RecvChunk(n, c) ==
    /\ uiThread = n
    /\ nav[n].state = "Reading"
    /\ \/ /\ Len(nav[n].chunks) < MaxResp
          /\ nav' = [nav EXCEPT ![n].response_data = Accumulate(@, c),
                                ![n].chunks = Append(@, c)]
       \/ /\ Len(nav[n].chunks) >= MaxResp
          /\ nav[n].server = "streaming"
          /\ nav' = [nav EXCEPT ![n].overflow = 1 - @]
    /\ UNCHANGED <<started, uiThread, sockets, nextSock, escaped, menu, image, appVars>>

\* lines 64-78: recv returns b"", the loop ends, the response is rendered
RecvClose(n) ==
    /\ uiThread = n
    /\ nav[n].state = "Reading"
    /\ nav[n].server = "finite"
    /\ nav' = [nav EXCEPT ![n].state = "Rendered", ![n].sink = "document",
                          ![n].renderer = IF IsImageType(nav[n].gopher_type)
                                          THEN "image" ELSE "menu",
                          ![n].sinkBase = nav[n].base,
                          ![n].call = RenderCall(nav[n]),
                          ![n].sinkCalls = @ + 1]
    /\ sockets' = WithExit(sockets, nav[n], FALSE)
    /\ uiThread' = 0
    /\ UNCHANGED <<started, nextSock, escaped, menu, image, appVars>>

\* as if the read loop caught the exception of recv and read again
RecvFail_ReadAgain(n, e) ==
    /\ uiThread = n
    /\ nav[n].state = "Reading"
    /\ nav[n].server = "finite"
    /\ nav' = [nav EXCEPT ![n].overflow = 1 - @]
    /\ UNCHANGED <<started, uiThread, sockets, nextSock, escaped, menu, image, appVars>>

\* line 64: recv raises (10 s without data, or a reset)
RecvFail(n, e) ==
    /\ uiThread = n
    /\ nav[n].state = "Reading"
    /\ nav[n].server = "finite"
    /\ nav' = [nav EXCEPT ![n] = Raise(nav[n], e)]
    /\ sockets' = WithExit(sockets, nav[n], TRUE)
    /\ escaped' = (escaped \/ ~HandlerCatches(e))
    /\ uiThread' = 0
    /\ UNCHANGED <<started, nextSock, menu, image, appVars>>

\* the steps of a call that is under way
ThreadStep ==
    \E n \in NavIds :
        \/ \E srv \in Servers : ConnectOk(n, srv)
        \/ \E e \in ConnectErrors : ConnectFail(n, e)
        \/ SendOk(n)
        \/ \E e \in WriteErrors : SendFail(n, e)
        \/ \E c \in Chunks : RecvChunk(n, c)
        \/ RecvClose(n)
        \/ \E e \in ReadErrors : RecvFail(n, e)

Next ==
    \/ \E n \in NavIds, lit \in Inputs : NavigateUrlBar(n, lit)
    \/ \E n \in NavIds, lit \in Inputs : NavigateNewTab(n, lit)
    \/ \E n \in NavIds, srv \in Servers : ConnectOk(n, srv)
    \/ \E n \in NavIds, e \in ConnectErrors : ConnectFail(n, e)
    \/ \E n \in NavIds : SendOk(n)
    \/ \E n \in NavIds, e \in WriteErrors : SendFail(n, e)
    \/ \E n \in NavIds, c \in Chunks : RecvChunk(n, c)
    \/ \E n \in NavIds : RecvClose(n)
    \/ \E n \in NavIds, e \in ReadErrors : RecvFail(n, e)

Spec == Init /\ [][Next]_vars

\* every blocking call of the handler returns or raises within its 10 s
\* timeout, so a call that is under way takes its next step
FairSpec == Spec /\ WF_vars(ThreadStep)

(***************************************************************************)
(* _parse_gopher_map_to_html, lines 103-165.  A string is a sequence of     *)
(* atoms: the characters that come from the response are one-character      *)
(* strings, each fixed piece of markup of the f-strings is one atom.        *)
(***************************************************************************)
\* number of lines in a response text
MaxLines == 2

\* str.splitlines breaks at \n, \r, \r\n, \v, \f, \x1c, \x1d, \x1e, \x85,
\* U+2028 and U+2029; these are the ones in the model's alphabet
LineBoundaries == {"\n", "\r", "\f", "U+2028"}

RECURSIVE SplitLinesFrom(_, _)
SplitLinesFrom(s, cur) ==
    IF s = <<>> THEN (IF cur = <<>> THEN <<>> ELSE <<cur>>)
    ELSE IF Len(s) >= 2 /\ s[1] = "\r" /\ s[2] = "\n"
         THEN <<cur>> \o SplitLinesFrom(DropFirst(s, 2), <<>>)
         ELSE IF Head(s) \in LineBoundaries
              THEN <<cur>> \o SplitLinesFrom(Tail(s), <<>>)
              ELSE SplitLinesFrom(Tail(s), Append(cur, Head(s)))

\* line 127: gopher_map.splitlines()
SplitLines(s) == SplitLinesFrom(s, <<>>)

\* line 151: s.replace(old, new) replaces every occurrence
Replace(s, old, new) == Join(Split(s, old), new)

DigitChar(d) ==
    CASE d = 0 -> "0" [] d = 1 -> "1" [] d = 2 -> "2" [] d = 3 -> "3"
      [] d = 4 -> "4" [] d = 5 -> "5" [] d = 6 -> "6" [] d = 7 -> "7"
      [] d = 8 -> "8" [] d = 9 -> "9"

RECURSIVE IntToStr(_)
\* an int formatted by an f-string (n >= 0)
IntToStr(n) ==
    IF n < 10 THEN <<DigitChar(n)>>
    ELSE IntToStr(n \div 10) \o <<DigitChar(n % 10)>>

\* as if lines 134-136 fell back to "" for every missing field
Field_EmptyDefault(parts, k, default) == IF Len(parts) > k THEN parts[k + 1] ELSE <<>>

\* lines 134-136: parts[k] if len(parts) > k else default
Field(parts, k, default) == IF Len(parts) > k THEN parts[k + 1] ELSE default

\* as if line 128 read: if not line
IsSkipped_EmptyOnly(line) == line = <<>>

\* line 128: not line or len(line) < 2
IsSkipped(line) == line = <<>> \/ Len(line) < 2

\* "gopher://{host}:{port}{selector}?gopher_type={t}"
GopherHref(host, port, selector, t) ==
    Scheme \o host \o <<":">> \o port \o selector \o TypeMark \o t

AnchorOpen(icon) == "<p>" \o icon \o " <a href=\""
AnchorMid == "\">"

\* as if the else branch of lines 158-162 emitted the text without a link
MenuEntry_NoFallbackLink(item_type, display_text, selector, host, port) ==
    IF item_type = "i" THEN <<"<p>  ">> \o display_text \o <<"</p>">>
    ELSE IF item_type \in {"0", "1", "g", "I", "p"}
    THEN <<AnchorOpen("U+1F4C4")>> \o GopherHref(host, port, selector, <<item_type>>)
         \o <<AnchorMid>> \o display_text \o <<"</a></p>">>
    ELSE IF item_type = "h"
    THEN <<AnchorOpen("U+1F310")>> \o Replace(selector, <<"U", "R", "L", ":">>, <<>>)
         \o <<AnchorMid>> \o display_text \o <<"</a></p>">>
    ELSE <<"<p>U+2753 ">> \o display_text \o <<" (Tipo ">> \o <<item_type>> \o <<")</p>">>

\* lines 138-162: the string appended to html_lines for one line
MenuEntry(item_type, display_text, selector, host, port) ==
    IF item_type = "i"
    THEN <<"<p>  ">> \o display_text \o <<"</p>">>
    ELSE IF item_type = "0"
    THEN <<AnchorOpen("U+1F4C4")>> \o GopherHref(host, port, selector, <<"0">>)
         \o <<AnchorMid>> \o display_text \o <<"</a></p>">>
    ELSE IF item_type = "1"
    THEN <<AnchorOpen("U+1F4C1")>> \o GopherHref(host, port, selector, <<"1">>)
         \o <<AnchorMid>> \o display_text \o <<"</a></p>">>
    ELSE IF item_type = "h"
    THEN <<AnchorOpen("U+1F310")>> \o Replace(selector, <<"U", "R", "L", ":">>, <<>>)
         \o <<AnchorMid>> \o display_text \o <<"</a></p>">>
    ELSE IF item_type \in {"g", "I", "p"}
    THEN <<AnchorOpen("U+1F5BC U+FE0F")>>
         \o GopherHref(host, port, selector, <<item_type>>)
         \o <<AnchorMid>> \o display_text \o <<"</a></p>">>
    ELSE <<AnchorOpen("U+2753")>> \o GopherHref(host, port, selector, <<item_type>>)
         \o <<AnchorMid>> \o display_text
         \o <<"</a> (Tipo ">> \o <<item_type>> \o <<")</p>">>

\* lines 131-162: one line that is not skipped
RenderLine(line, current_host, current_port) ==
    LET item_type == line[1]
        parts == Split(Tail(line), <<"\t">>)
        display_text == parts[1]
        selector == Field(parts, 1, <<>>)
        host == Field(parts, 2, current_host)
        port == Field(parts, 3, IntToStr(current_port))
    IN  MenuEntry(item_type, display_text, selector, host, port)

\* lines 118-125
HtmlHead ==
    << <<"<html><head><meta charset=\"UTF-8\">">>,
       <<"<title>Gopher Page</title>">>,
       <<"<style>body { font-family: monospace; background-color: #f0f0f0; color: #333; } a { text-decoration: none; color: #0000FF;} p { margin: 2px; }</style>">>,
       <<"</head><body><h2>Gopherspace</h2><pre>">> >>

\* line 164
HtmlFoot == << <<"</pre></body></html>">> >>

RECURSIVE RenderLines(_, _, _)
\* lines 127-162: the loop over the lines
RenderLines(lines, current_host, current_port) ==
    IF lines = <<>> THEN <<>>
    ELSE (IF IsSkipped(Head(lines)) THEN <<>>
          ELSE <<RenderLine(Head(lines), current_host, current_port)>>)
         \o RenderLines(Tail(lines), current_host, current_port)

\* html_lines when line 165 is reached
HtmlLines(gopher_map, current_host, current_port) ==
    HtmlHead \o RenderLines(SplitLines(gopher_map), current_host, current_port)
    \o HtmlFoot

RECURSIVE Concat(_)
\* "".join(html_lines)
Concat(ss) == IF ss = <<>> THEN <<>> ELSE Head(ss) \o Concat(Tail(ss))

\* lines 103-165
ParseGopherMapToHtml(gopher_map, current_host, current_port) ==
    Concat(HtmlLines(gopher_map, current_host, current_port))

(***************************************************************************)
(* Response texts: each line is written from an item type t, a display      *)
(* text d and the fields f that follow it (selector, host, port), joined by *)
(* TAB and ended by CR LF.  t = "" writes a line without a type character.  *)
(***************************************************************************)
FullFields == << <<"/", "a">>, <<"x">>, <<"7">> >>

UrlPrefix == <<"U", "R", "L", ":">>

MenuItems ==
    \* every item type, all fields given
    [t : {"0", "1", "g", "I", "p", "7"}, d : {<<"A">>}, f : {FullFields}]
    \* an info line
    \cup [t : {"i"}, d : {<<"A">>}, f : {<<>>}]
    \* port, host and port, or all three fields left out
    \cup [t : {"1"}, d : {<<"A">>},
          f : {<< <<"/", "a">>, <<"x">> >>, << <<"/", "a">> >>, <<>>}]
    \* a selector without a leading "/", and an empty one
    \cup [t : {"1"}, d : {<<"A">>},
          f : {<< <<"a">>, <<"x">>, <<"7">> >>, << <<>>, <<"x">>, <<"7">> >>}]
    \* a selector that holds "//", and one that holds "?gopher_type="
    \cup [t : {"1"}, d : {<<"A">>},
          f : {<< <<"/", "a", "/", "/", "b">>, <<"x">>, <<"7">> >>,
               << <<"/", "a">> \o TypeMark \o <<"I">>, <<"x">>, <<"7">> >>}]
    \* links to the web
    \cup [t : {"h"}, d : {<<"A">>},
          f : {<< UrlPrefix \o <<"b">>, <<"x">>, <<"7">> >>,
               << UrlPrefix \o <<"b">> \o UrlPrefix \o <<"a">>, <<"x">>, <<"7">> >>}]
    \* an empty line and a lone type character
    \cup [t : {"", "1"}, d : {<<>>}, f : {<<>>}]
    \* a display text that holds a lone CR, a form feed or U+2028
    \cup [t : {"1"}, d : {<<"A", "\r", "B">>, <<"A", "\f", "B">>, <<"A", "U+2028", "B">>},
          f : {FullFields}]

RECURSIVE TabFields(_)
TabFields(f) == IF f = <<>> THEN <<>> ELSE <<"\t">> \o Head(f) \o TabFields(Tail(f))

RawLine(item) ==
    (IF item.t = "" THEN <<>> ELSE <<item.t>>) \o item.d \o TabFields(item.f)

RECURSIVE TextOf(_)
\* the response text of a sequence of items
TextOf(items) ==
    IF items = <<>> THEN <<>>
    ELSE RawLine(Head(items)) \o <<"\r", "\n">> \o TextOf(Tail(items))

\* the server's response grows by one line
AppendLine(item) ==
    /\ ~menu.returned
    /\ Len(menu.items) < MaxLines
    /\ menu' = [menu EXCEPT !.items = Append(@, item)]
    /\ UNCHANGED <<nav, started, uiThread, sockets, nextSock, escaped, image, appVars>>

\* _parse_gopher_map_to_html is called on the text and returns
RenderMenu ==
    /\ ~menu.returned
    /\ menu' = [menu EXCEPT
                  !.returned = TRUE,
                  !.html_lines = HtmlLines(TextOf(menu.items), menu.current_host,
                                           menu.current_port),
                  !.html = ParseGopherMapToHtml(TextOf(menu.items), menu.current_host,
                                                menu.current_port)]
    /\ UNCHANGED <<nav, started, uiThread, sockets, nextSock, escaped, image, appVars>>

MenuNext ==
    \/ \E item \in MenuItems : AppendLine(item)
    \/ RenderMenu

MenuSpec == Init /\ [][MenuNext]_vars

(***************************************************************************)
(* _parse_image_to_html, lines 84-101.  Bytes are integers 0..255; the      *)
(* characters of the base64 text are one-character strings, each fixed      *)
(* piece of the f-string and each MIME type is one atom.                    *)
(***************************************************************************)
\* number of bytes in an image
MaxImageLen == 4

\* the standard base64 alphabet (RFC 4648, section 4)
B64Alphabet ==
    <<"A", "B", "C", "D", "E", "F", "G", "H", "I", "J", "K", "L", "M", "N", "O", "P",
      "Q", "R", "S", "T", "U", "V", "W", "X", "Y", "Z", "a", "b", "c", "d", "e", "f",
      "g", "h", "i", "j", "k", "l", "m", "n", "o", "p", "q", "r", "s", "t", "u", "v",
      "w", "x", "y", "z", "0", "1", "2", "3", "4", "5", "6", "7", "8", "9", "+", "/">>

B64Char(v) == B64Alphabet[v + 1]

RECURSIVE B64Encode_NoPadding(_)
\* as if the encoder left out the "=" that fill the last group
B64Encode_NoPadding(bs) ==
    IF bs = <<>> THEN <<>>
    ELSE IF Len(bs) = 1
    THEN <<B64Char(bs[1] \div 4), B64Char((bs[1] % 4) * 16)>>
    ELSE IF Len(bs) = 2
    THEN <<B64Char(bs[1] \div 4), B64Char((bs[1] % 4) * 16 + bs[2] \div 16),
           B64Char((bs[2] % 16) * 4)>>
    ELSE <<B64Char(bs[1] \div 4), B64Char((bs[1] % 4) * 16 + bs[2] \div 16),
           B64Char((bs[2] % 16) * 4 + bs[3] \div 64), B64Char(bs[3] % 64)>>
         \o B64Encode_NoPadding(DropFirst(bs, 3))

RECURSIVE B64Encode(_)
\* line 95: base64.b64encode(image_data).decode('ascii')
B64Encode(bs) ==
    IF bs = <<>> THEN <<>>
    ELSE IF Len(bs) = 1
    THEN <<B64Char(bs[1] \div 4), B64Char((bs[1] % 4) * 16), "=", "=">>
    ELSE IF Len(bs) = 2
    THEN <<B64Char(bs[1] \div 4), B64Char((bs[1] % 4) * 16 + bs[2] \div 16),
           B64Char((bs[2] % 16) * 4), "=">>
    ELSE <<B64Char(bs[1] \div 4), B64Char((bs[1] % 4) * 16 + bs[2] \div 16),
           B64Char((bs[2] % 16) * 4 + bs[3] \div 64), B64Char(bs[3] % 64)>>
         \o B64Encode(DropFirst(bs, 3))

\* lines 92-93: mime_map.get(gopher_type, 'application/octet-stream')
MimeType(gopher_type) ==
    CASE gopher_type = <<"g">> -> "image/gif"
      [] gopher_type = <<"p">> -> "image/png"
      [] gopher_type = <<"I">> -> "image/jpeg"
      [] OTHER -> "application/octet-stream"

\* lines 97-101
ParseImageToHtml(image_data, gopher_type) ==
    <<"<html><body style=\"background-color: #333; display: grid; place-items: center; margin: 0;\">",
      "<img src=\"data:", MimeType(gopher_type), ";base64,">>
    \o B64Encode(image_data)
    \o <<"\"></body></html>">>

\* byte values of the images
ImageBytes == {0, 71, 137, 255}

\* the gopher_type argument: the three image types, two other types, None
ImageTypes == {<<"g">>, <<"I">>, <<"p">>, <<"1">>, <<"x">>, None}

\* the image data grows by one byte
AppendByte(b) ==
    /\ ~image.returned
    /\ Len(image.image_data) < MaxImageLen
    /\ image' = [image EXCEPT !.image_data = Append(@, b)]
    /\ UNCHANGED <<nav, started, uiThread, sockets, nextSock, escaped, menu, appVars>>

\* _parse_image_to_html is called on the data and returns
RenderImage(t) ==
    /\ ~image.returned
    /\ image' = [image EXCEPT
                   !.gopher_type = t,
                   !.returned = TRUE,
                   !.html = ParseImageToHtml(image.image_data, t)]
    /\ UNCHANGED <<nav, started, uiThread, sockets, nextSock, escaped, menu, appVars>>

ImageNext ==
    \/ \E b \in ImageBytes : AppendByte(b)
    \/ \E t \in ImageTypes : RenderImage(t)

ImageSpec == Init /\ [][ImageNext]_vars

(***************************************************************************)
(* The window's handlers as actions.  The user opens, closes and selects    *)
(* tabs and clicks the Block button; the page of a WebView tab emits its    *)
(* load and URL signals at any time.                                        *)
(***************************************************************************)
\* the URL argument of adicionar_nova_aba: none (Ctrl+T), or a URL
NewTabUrls == {"None", "https://a"}

\* the URLs a page moves to
PageUrls == {"https://a", "http://b"}

\* values of loadProgress
Progresses == {50}

\* what does not belong to the window
exceptWin == <<gopherVars, hist, proxy, icpt, ai, tamper, marks>>

\* the tabs made by _criar_nova_aba_webview, whose signals are connected
WebTabs == {b \in 0..(Count(win) - 1) : IsWebView(win, b)}

AdicionarNovaAba(url) ==
    /\ Count(win) < MaxTabs
    /\ win' = Call(win, "adicionar_nova_aba", Count(win), url,
                   adicionar_nova_aba(win, url, "Nova Aba"))
    /\ UNCHANGED exceptWin

AbrirEditorHtml ==
    /\ Count(win) < MaxTabs
    /\ win' = Call(win, "abrir_editor_html", Count(win), "", abrir_editor_html(win, "Editor"))
    /\ UNCHANGED exceptWin

AbrirAbaCodigoFonte ==
    /\ Count(win) < MaxTabs
    /\ win' = Call(win, "abrir_aba_codigo_fonte", Count(win), "",
                   abrir_aba_codigo_fonte(win))
    /\ UNCHANGED exceptWin

AbrirAbaHistorico ==
    /\ Count(win) < MaxTabs
    /\ win' = Call(win, "abrir_aba_historico", -1, "", abrir_aba_historico(win))
    /\ UNCHANGED exceptWin

\* tabCloseRequested(index), or any other call of fechar_aba
FecharAba(index) ==
    /\ win' = Call(win, "fechar_aba", index, "", fechar_aba(win, index))
    /\ UNCHANGED exceptWin

\* the user selects the tab at index
SelectTab(index) ==
    /\ ValidIndex(win, index)
    /\ win' = Call(win, "setCurrentIndex", index, "", setCurrentIndex(win, index))
    /\ UNCHANGED exceptWin

\* loadStarted of tab b
InicioCarregamento(b) ==
    /\ win' = Call(win, "inicio_carregamento", b, "", inicio_carregamento(win, b))
    /\ UNCHANGED exceptWin

\* loadProgress(progress) of tab b
AtualizarProgresso(progress, b) ==
    /\ win' = Call(win, "atualizar_progresso", b, progress,
                   atualizar_progresso(win, progress, b))
    /\ UNCHANGED exceptWin

\* loadFinished(ok) of tab b; the other slot of the signal,
\* adicionar_ao_historico, is the history's action
FimCarregamento(ok, b) ==
    /\ win' = Call(win, "fim_carregamento", b, ok, fim_carregamento(win, ok, b))
    /\ UNCHANGED exceptWin

\* urlChanged(qurl) of tab b: the page has moved to qurl
UrlChanged(qurl, b) ==
    /\ win.tabs[b + 1].url # qurl
    /\ win' = Call(win, "atualizar_url_bar", b, qurl, setUrl(win, b, qurl))
    /\ UNCHANGED exceptWin

\* the user clicks the Block button
ClickBlocker ==
    /\ win.btn_blocker.enabled
    /\ win' = Call(win, "toggle_blocker", win.current, ~win.btn_blocker.checked,
                   setChecked(win, ~win.btn_blocker.checked))
    /\ UNCHANGED exceptWin

\* tab operations
TabNext ==
    \/ \E url \in NewTabUrls : AdicionarNovaAba(url)
    \/ AbrirEditorHtml
    \/ AbrirAbaCodigoFonte
    \/ AbrirAbaHistorico
    \/ \E index \in -1..MaxTabs : FecharAba(index)

TabSpec == Init /\ [][TabNext]_vars

\* tabs that load pages while the user opens and selects tabs
LoadNext ==
    \/ AdicionarNovaAba("None")
    \/ AbrirEditorHtml
    \/ \E index \in 0..(MaxTabs - 1) : SelectTab(index)
    \/ \E b \in WebTabs : InicioCarregamento(b)
    \/ \E b \in WebTabs, progress \in Progresses : AtualizarProgresso(progress, b)
    \/ \E b \in WebTabs, ok \in BOOLEAN : FimCarregamento(ok, b)
    \/ \E b \in WebTabs, qurl \in PageUrls : UrlChanged(qurl, b)

LoadSpec == Init /\ [][LoadNext]_vars

\* the Block button while the user opens and selects tabs
BlockerNext ==
    \/ AdicionarNovaAba("None")
    \/ AbrirEditorHtml
    \/ \E index \in 0..(MaxTabs - 1) : SelectTab(index)
    \/ ClickBlocker

BlockerSpec == Init /\ [][BlockerNext]_vars

(***************************************************************************)
(* The history, src/actions/history_actions.py.                             *)
(***************************************************************************)
\* number of entries of the history
MaxHistory == 3

\* browser.url().toString() and browser.title() of the page that has loaded
HistoryUrls == {"", "about:blank", "https://a", "http://b"}
HistoryTitles == {"A", "B"}

\* as if line 73 did not look at the last entry
IsIgnored_BlankOnly(history, url) == url = "" \/ url = "about:blank"

\* line 73: not url or url == "about:blank" or
\* (self.history and self.history[-1]['url'] == url)
IsIgnored(history, url) ==
    \/ url = ""
    \/ url = "about:blank"
    \/ (history # <<>> /\ history[Len(history)].url = url)

\* salvar_historico(), lines 51-59: the file takes the history, unless
\* open() raises an OSError
salvar_historico(h, opened) == IF opened THEN [h EXCEPT !.file = h.history] ELSE h

\* adicionar_ao_historico(browser), lines 61-82
adicionar_ao_historico(h, url, titulo, opened) ==
    IF IsIgnored(h.history, url) THEN h
    ELSE salvar_historico(
             [h EXCEPT !.history = Append(@, [url |-> url, titulo |-> titulo])], opened)

\* limpar_historico(), lines 137-149
limpar_historico(h, opened) == salvar_historico([h EXCEPT !.history = <<>>], opened)

\* what does not belong to the history
exceptHist == <<gopherVars, win, proxy, icpt, ai, tamper, marks>>

\* loadFinished of a tab whose page has url and titulo
AdicionarAoHistorico(url, titulo, opened) ==
    /\ Len(hist.history) < MaxHistory
    /\ hist' = [adicionar_ao_historico(hist, url, titulo, opened) EXCEPT
                  !.last = [op |-> "adicionar_ao_historico", url |-> url,
                            history |-> hist.history, file |-> hist.file]]
    /\ UNCHANGED exceptHist

\* the user clicks "Limpar Historico"
LimparHistorico(opened) ==
    /\ hist' = [limpar_historico(hist, opened) EXCEPT
                  !.last = [op |-> "limpar_historico", url |-> "",
                            history |-> hist.history, file |-> hist.file]]
    /\ UNCHANGED exceptHist

HistNext ==
    \/ \E url \in HistoryUrls, titulo \in HistoryTitles, opened \in BOOLEAN :
           AdicionarAoHistorico(url, titulo, opened)
    \/ \E opened \in BOOLEAN : LimparHistorico(opened)

HistSpec == Init /\ [][HistNext]_vars

(***************************************************************************)
(* The proxies, src/actions/file_actions.py lines 268-370.                  *)
(***************************************************************************)
\* number of saved proxies
MaxProxies == 2

\* what the user types in the ProxyDialog
DialogHosts == {"", "p", "q"}
DialogPorts == {"", "0", "80"}
DialogNames == {"", "n"}

\* int(port_text) for the port texts of the model
PortOf(port_text) == IF port_text = "80" THEN 80 ELSE 0

\* get_proxy_from_dialog(dialog), lines 268-285, followed by the test
\* "if host and port" of its callers: a host and a port other than 0
DialogGivesProxy(host, port_text) ==
    host # "" /\ port_text # "" /\ PortOf(port_text) # 0

\* definir_proxy(host, port, apelido), lines 344-358
definir_proxy(p, host, port_text, apelido) ==
    [p EXCEPT
       !.application_proxy =
           [type |-> "HttpProxy", host |-> host, port |-> PortOf(port_text)],
       !.proxy_status_message =
           "Proxy Ativo: " \o (IF apelido # "" THEN apelido ELSE host \o ":" \o port_text)]

\* desativar_proxy(), lines 360-370
desativar_proxy(p) ==
    [p EXCEPT !.application_proxy = NoProxy,
              !.proxy_status_message = "Conex[U+00E3]o Direta"]

\* salvar_e_usar_proxy(dialog), lines 300-318; salvar_proxies raises when
\* the file cannot be opened, and the proxy is then saved in the list only
salvar_e_usar_proxy(p, host, port_text, name, opened) ==
    IF ~DialogGivesProxy(host, port_text) THEN p
    ELSE LET apelido == IF name = "" THEN host \o ":" \o port_text ELSE name
             novo_proxy == [apelido |-> apelido, host |-> host, port |-> port_text]
             p1 == [p EXCEPT !.proxy_list = Append(@, novo_proxy)]
         IN  IF opened
             THEN definir_proxy([p1 EXCEPT !.file = p1.proxy_list], host, port_text, apelido)
             ELSE p1

\* definir_proxy_temporario(dialog), lines 287-298
definir_proxy_temporario(p, host, port_text) ==
    IF DialogGivesProxy(host, port_text) THEN definir_proxy(p, host, port_text, "") ELSE p

\* as if line 336 went back to the first proxy
NextProxyIndex_Wrap(index, n) == IF index + 1 >= n THEN 0 ELSE index + 1

\* lines 334-336
NextProxyIndex(index, n) == IF index + 1 >= n THEN -1 ELSE index + 1

\* trocar_proxy(), lines 320-342
trocar_proxy(p) ==
    IF p.proxy_list = <<>> THEN desativar_proxy(p)
    ELSE LET index == NextProxyIndex(p.current_proxy_index, Len(p.proxy_list))
             p1 == [p EXCEPT !.current_proxy_index = index]
         IN  IF index = -1 THEN desativar_proxy(p1)
             ELSE definir_proxy(p1, p1.proxy_list[index + 1].host,
                                p1.proxy_list[index + 1].port,
                                p1.proxy_list[index + 1].apelido)

\* what does not belong to the proxies
exceptProxy == <<gopherVars, win, hist, icpt, ai, tamper, marks>>

\* "Salvar e Usar" in the dialog
SalvarEUsarProxy(host, port_text, name, opened) ==
    /\ Len(proxy.proxy_list) < MaxProxies
    /\ proxy' = [salvar_e_usar_proxy(proxy, host, port_text, name, opened) EXCEPT
                   !.run = <<>>, !.in_run = FALSE, !.last = "salvar_e_usar_proxy"]
    /\ UNCHANGED exceptProxy

\* "Usar Temporariamente" in the dialog
DefinirProxyTemporario(host, port_text) ==
    /\ proxy' = [definir_proxy_temporario(proxy, host, port_text) EXCEPT
                   !.run = <<>>, !.in_run = FALSE, !.last = "definir_proxy_temporario"]
    /\ UNCHANGED exceptProxy

\* the user asks for the next proxy
TrocarProxy ==
    /\ proxy' = [trocar_proxy(proxy) EXCEPT
                   !.run = IF proxy.current_proxy_index = -1 /\ proxy.proxy_list # <<>>
                           THEN <<trocar_proxy(proxy).application_proxy>>
                           ELSE IF proxy.in_run
                           THEN Append(@, trocar_proxy(proxy).application_proxy)
                           ELSE <<>>,
                   !.in_run = \/ proxy.in_run
                              \/ (proxy.current_proxy_index = -1 /\ proxy.proxy_list # <<>>),
                   !.last = "trocar_proxy"]
    /\ UNCHANGED exceptProxy

ProxyNext ==
    \/ \E host \in DialogHosts, port_text \in DialogPorts, name \in DialogNames,
          opened \in BOOLEAN : SalvarEUsarProxy(host, port_text, name, opened)
    \/ \E host \in DialogHosts, port_text \in DialogPorts :
           DefinirProxyTemporario(host, port_text)
    \/ TrocarProxy

ProxySpec == Init /\ [][ProxyNext]_vars

(***************************************************************************)
(* The request interceptor of a tab,                                        *)
(* src/components/network/interceptor.py.  Hosts and domains are sequences  *)
(* of characters.                                                           *)
(***************************************************************************)
\* the domains a blocklist is made of
Domains == {<<"b", ".", "c">>, <<"c">>, <<"x", ".", "b", ".", "c">>}

\* info.requestUrl().host() of the requests
RequestHosts ==
    {<<"b", ".", "c">>,
     <<"a", ".", "b", ".", "c">>,
     <<"a", "b", ".", "c">>,
     <<"c">>,
     <<"d">>,
     <<"x", ".", "b", ".", "c">>,
     <<".", "b", ".", "c">>,
     <<>>}

\* s.endswith(suffix)
EndsWith(s, suffix) ==
    Len(s) >= Len(suffix) /\ SubSeq(s, Len(s) - Len(suffix) + 1, Len(s)) = suffix

\* as if line 55 compared the end of the host with the domain alone
HostMatches_NoDot(host, blocked_domain) ==
    host = blocked_domain \/ EndsWith(host, blocked_domain)

\* line 55: host == blocked_domain or host.endswith("." + blocked_domain)
HostMatches(host, blocked_domain) ==
    host = blocked_domain \/ EndsWith(host, <<".">> \o blocked_domain)

\* UrlInterceptor.__init__(blocklist), lines 23-34
NewUrlInterceptor(blocklist) ==
    [IcptStart EXCEPT !.blocklist = blocklist, !.blocking_enabled = FALSE]

\* interceptRequest(info), lines 36-66: the loop returns at the first
\* domain that matches
interceptRequest(i, host) ==
    IF i.blocking_enabled /\ \E blocked_domain \in i.blocklist :
                                 HostMatches(host, blocked_domain)
    THEN [i EXCEPT !.handled = TRUE, !.host = host, !.block_called = TRUE,
                   !.emitted = <<[blocked |-> TRUE]>>]
    ELSE [i EXCEPT !.handled = TRUE, !.host = host, !.block_called = FALSE,
                   !.emitted = <<[blocked |-> FALSE]>>]

\* what does not belong to the interceptor
exceptIcpt == <<gopherVars, win, hist, proxy, ai, tamper, marks>>

\* a tab is made with the blocklist that was loaded
CreateInterceptor(blocklist) ==
    /\ ~icpt.handled
    /\ icpt.blocklist = {}
    /\ icpt' = NewUrlInterceptor(blocklist)
    /\ UNCHANGED exceptIcpt

\* toggle_blocker writes the flag (privacy_actions.py line 63)
SetBlockingEnabled(checked) ==
    /\ icpt.blocking_enabled # checked
    /\ icpt' = [icpt EXCEPT !.blocking_enabled = checked, !.handled = FALSE,
                            !.host = <<>>, !.emitted = <<>>, !.block_called = FALSE]
    /\ UNCHANGED exceptIcpt

\* the web engine hands a request to the interceptor
InterceptRequest(host) ==
    /\ icpt' = interceptRequest(
                   [icpt EXCEPT !.emitted = <<>>, !.block_called = FALSE], host)
    /\ UNCHANGED exceptIcpt

IcptNext ==
    \/ \E blocklist \in SUBSET Domains : CreateInterceptor(blocklist)
    \/ \E checked \in BOOLEAN : SetBlockingEnabled(checked)
    \/ \E host \in RequestHosts : InterceptRequest(host)

IcptSpec == Init /\ [][IcptNext]_vars

(***************************************************************************)
(* The AI assistant, src/actions/ai_actions.py.  WorkerIA.rodar runs in a   *)
(* QThread of its own and is cut at the API call, whose outcome the         *)
(* service decides.                                                         *)
(***************************************************************************)
\* number of prompts the user sends
MaxPrompts == 3

\* what QInputDialog.getText gives when the key is asked for: (ok, texto)
KeyAnswers == {[ok |-> TRUE, texto |-> "key"], [ok |-> TRUE, texto |-> ""],
               [ok |-> TRUE, texto |-> " "], [ok |-> FALSE, texto |-> "key"]}

\* the prompts the user types
Prompts == {"p", "q"}

\* str.strip() of the texts of KeyAnswers
strip(texto) == IF texto = " " THEN "" ELSE texto

\* how the try block of rodar ends: generate_content returns a response
\* with a text, it returns a response whose text property raises, or
\* configure / generate_content raises
ApiOutcomes == {"text", "text_raises", "call_raises"}

\* lines 118-131: a WorkerIA for the prompt, moved to a QThread that is
\* started
NewRun(prompt) ==
    [prompt |-> prompt, state |-> "running", emitted |-> <<>>, quit_asked |-> FALSE]

\* lines 68-70: finally: self.finished.emit()
EmitFinished(outcome) == <<"finished">>

\* rodar(), lines 45-70, from the return of the API call to its end
rodar(run, outcome) ==
    LET emitted == (IF outcome = "text" THEN <<"resultado_pronto">>
                    ELSE <<"erro_ocorrido">>) \o EmitFinished(outcome)
    IN  [prompt |-> run.prompt,
         state |-> "returned",
         emitted |-> emitted,
         \* line 126: finished is connected to thread.quit
         quit_asked |-> \E i \in 1..Len(emitted) : emitted[i] = "finished"]

\* the QThread of self.thread is running: its event loop has not ended
ThreadRunning(a) == a.current # 0 /\ a.runs[a.current].state # "finished"

\* processar_prompt_ia(prompt), lines 82-131.  Line 118 drops the only
\* reference to the QThread of the prompt before; destroying a QThread
\* that is still running ends the process (QThread: Destroyed while
\* thread is still running).
processar_prompt_ia(a, prompt, answer) ==
    LET a1 == IF a.api_key = "" /\ answer.ok /\ answer.texto # ""
              THEN [a EXCEPT !.api_key = strip(answer.texto)]
              ELSE a
    IN  IF a.api_key = "" /\ ~(answer.ok /\ answer.texto # "")
        THEN [a EXCEPT !.panel = "Opera[U+00E7][U+00E3]o cancelada."]
        ELSE IF a1.api_key = ""
        THEN a1
        ELSE IF ThreadRunning(a1)
        THEN [a1 EXCEPT !.aborted = TRUE]
        ELSE [a1 EXCEPT !.runs = Append(@, NewRun(prompt)),
                        !.current = Len(a1.runs) + 1]

\* what does not belong to the assistant
exceptAi == <<gopherVars, win, hist, proxy, icpt, tamper, marks>>

\* AIPanel._enviar_prompt: the user sends a prompt
ProcessarPromptIa(prompt, answer) ==
    /\ ~ai.aborted
    /\ ai.prompts < MaxPrompts
    /\ ai' = [processar_prompt_ia([ai EXCEPT !.panel = "Pensando..."], prompt, answer)
                EXCEPT !.prompts = ai.prompts + 1]
    /\ UNCHANGED exceptAi

\* the API call of run r ends and rodar runs to its end; the slot
\* set_response shows what was emitted
Rodar(r, outcome) ==
    /\ ~ai.aborted
    /\ r \in 1..Len(ai.runs)
    /\ ai.runs[r].state = "running"
    /\ ai' = [ai EXCEPT !.runs[r] = rodar(ai.runs[r], outcome),
                        !.panel = IF outcome = "text" THEN "response.text"
                                  ELSE "Erro na API do Gemini"]
    /\ UNCHANGED exceptAi

\* the event loop of the thread of run r ends after quit(): the thread
\* emits its own finished and is deleted
ThreadFinished(r) ==
    /\ ~ai.aborted
    /\ r \in 1..Len(ai.runs)
    /\ ai.runs[r].state = "returned"
    /\ ai.runs[r].quit_asked
    /\ ai' = [ai EXCEPT !.runs[r].state = "finished"]
    /\ UNCHANGED exceptAi

\* a step of a worker thread
AiThreadStep ==
    \/ \E r \in 1..MaxPrompts, outcome \in ApiOutcomes : Rodar(r, outcome)
    \/ \E r \in 1..MaxPrompts : ThreadFinished(r)

AiNext ==
    \/ \E prompt \in Prompts, answer \in KeyAnswers : ProcessarPromptIa(prompt, answer)
    \/ \E r \in 1..MaxPrompts, outcome \in ApiOutcomes : Rodar(r, outcome)
    \/ \E r \in 1..MaxPrompts : ThreadFinished(r)

AiSpec == Init /\ [][AiNext]_vars

(***************************************************************************)
(* The request editor, src/dialogs/tamper_dialog.py.  RequestWorker.run     *)
(* runs in a QThread of its own and is cut at the blocking request; its     *)
(* signals reach the dialog, which lives in the main thread, as queued      *)
(* calls.                                                                   *)
(***************************************************************************)
\* number of requests the user sends from one dialog
MaxSends == 4

\* how requests.request ends: with a response, or raising
RequestOutcomes == {"response", "raises"}

\* lines 122-134: a RequestWorker moved to a QThread that is started
NewRequest ==
    [state |-> "requesting", emitted |-> <<>>, slots |-> <<>>]

\* RequestWorker.run(), lines 36-54, from the return of requests.request
\* to its end: the signals emitted, in order
run(outcome) ==
    <<IF outcome = "response" THEN "response_ready" ELSE "request_failed",
      "finished">>

\* lines 127-130: what each signal of run r queues for the main thread
QueuedCalls(r, emitted) ==
    [i \in 1..Len(emitted) |->
        [run |-> r,
         call |-> CASE emitted[i] = "response_ready" -> "_on_response_ready"
                    [] emitted[i] = "request_failed" -> "_on_request_failed"
                    [] OTHER -> "quit"]]

\* the QThread of self.thread is running: its event loop has not ended
RequestThreadRunning(t) ==
    t.current # 0 /\ t.runs[t.current].state # "thread_finished"

\* _send_request(), lines 106-134.  Line 122 drops the only reference to
\* the QThread of the request before; destroying a QThread that is still
\* running ends the process.
send_request(t) ==
    LET t1 == [t EXCEPT !.send_button = FALSE,
                        !.sent_output = "A enviar requisi[U+00E7][U+00E3]o...",
                        !.received_output = ""]
    IN  IF RequestThreadRunning(t1)
        THEN [t1 EXCEPT !.aborted = TRUE]
        ELSE [t1 EXCEPT !.runs = Append(@, NewRequest),
                        !.current = Len(t1.runs) + 1]

\* _on_response_ready(response), lines 136-151
on_response_ready(t) ==
    [t EXCEPT !.sent_output = "request", !.received_output = "STATUS",
              !.send_button = TRUE]

\* _on_request_failed(error_message), lines 153-159
on_request_failed(t) ==
    [t EXCEPT !.sent_output = "Erro ao enviar requisi[U+00E7][U+00E3]o",
              !.received_output = "error_message",
              !.send_button = TRUE]

\* what does not belong to the request editor
exceptTamper == <<gopherVars, win, hist, proxy, icpt, ai, marks>>

\* send_button.clicked: a disabled button does not emit it
SendRequest ==
    /\ ~tamper.aborted
    /\ tamper.send_button
    /\ Len(tamper.runs) < MaxSends
    /\ tamper' = send_request(tamper)
    /\ UNCHANGED exceptTamper

\* the request of run r ends and run() runs to its end
RunRequest(r, outcome) ==
    /\ ~tamper.aborted
    /\ r \in 1..Len(tamper.runs)
    /\ tamper.runs[r].state = "requesting"
    /\ tamper' = [tamper EXCEPT
            !.runs[r].state = "returned",
            !.runs[r].emitted = run(outcome),
            !.events = @ \o QueuedCalls(r, run(outcome))]
    /\ UNCHANGED exceptTamper

\* the main thread runs the next queued call
Dispatch ==
    /\ ~tamper.aborted
    /\ tamper.events # <<>>
    /\ LET ev == Head(tamper.events)
           t1 == [tamper EXCEPT !.events = Tail(@)]
       IN  tamper' =
             CASE ev.call = "_on_response_ready" ->
                    [on_response_ready(t1) EXCEPT !.runs[ev.run].slots = Append(@, ev.call)]
               [] ev.call = "_on_request_failed" ->
                    [on_request_failed(t1) EXCEPT !.runs[ev.run].slots = Append(@, ev.call)]
               [] OTHER -> [t1 EXCEPT !.runs[ev.run].state = "quitting"]
    /\ UNCHANGED exceptTamper

\* the event loop of the thread of run r ends after quit()
RequestThreadFinished(r) ==
    /\ ~tamper.aborted
    /\ r \in 1..Len(tamper.runs)
    /\ tamper.runs[r].state = "quitting"
    /\ tamper' = [tamper EXCEPT !.runs[r].state = "thread_finished"]
    /\ UNCHANGED exceptTamper

\* a step that needs no user
TamperStep ==
    \/ \E r \in 1..MaxSends, outcome \in RequestOutcomes : RunRequest(r, outcome)
    \/ Dispatch
    \/ \E r \in 1..MaxSends : RequestThreadFinished(r)

TamperNext ==
    \/ SendRequest
    \/ \E r \in 1..MaxSends, outcome \in RequestOutcomes : RunRequest(r, outcome)
    \/ Dispatch
    \/ \E r \in 1..MaxSends : RequestThreadFinished(r)

TamperSpec == Init /\ [][TamperNext]_vars

(***************************************************************************)
(* Bookmarks, src/actions/bookmark_actions.py.                              *)
(***************************************************************************)
\* the current tab when the button is clicked: a page with its title and
\* URL, or a tab that is not a WebView
BookmarkUrls == {"https://a", "https://b", "https://c", "about:blank"}
BookmarkTitles == {"", "A", "B"}
CurrentPages ==
    [webview : {TRUE}, titulo : BookmarkTitles, url : BookmarkUrls]
        \cup {[webview |-> FALSE, titulo |-> "", url |-> ""]}

\* as if only the first bookmark were looked at
IsBookmarked_FirstOnly(bookmarks, url) ==
    bookmarks # <<>> /\ bookmarks[1].url = url

\* url in self.bookmarks.values()
IsBookmarked(bookmarks, url) ==
    \E i \in 1..Len(bookmarks) : bookmarks[i].url = url

\* self.bookmarks[titulo] = url: an existing key keeps its place
SetItem(bookmarks, titulo, url) ==
    IF \E i \in 1..Len(bookmarks) : bookmarks[i].titulo = titulo
    THEN [i \in 1..Len(bookmarks) |->
            IF bookmarks[i].titulo = titulo
            THEN [titulo |-> titulo, url |-> url]
            ELSE bookmarks[i]]
    ELSE Append(bookmarks, [titulo |-> titulo, url |-> url])

\* del self.bookmarks[titulo]
DelItem(bookmarks, titulo) ==
    SelectSeq(bookmarks, LAMBDA item : item.titulo # titulo)

\* salvar_favoritos(), lines 43-51, then atualizar_barra_favoritos() and
\* atualizar_botao_favorito(); when the file cannot be opened the
\* exception leaves the handler before the two updates
salvar_e_atualizar(m, page, opened) ==
    IF opened
    THEN [m EXCEPT !.file = m.bookmarks,
                   !.toolbar = [i \in 1..Len(m.bookmarks) |-> m.bookmarks[i].titulo],
                   !.btn_toggle_favorito =
                       IF IsBookmarked(m.bookmarks, page.url) THEN "Remover" ELSE "Salvar"]
    ELSE m

\* adicionar_favorito(), lines 70-88
adicionar_favorito(m, page, opened) ==
    IF page.titulo = "" \/ page.url = "" \/ page.url = "about:blank"
    THEN m
    ELSE salvar_e_atualizar(
             [m EXCEPT !.bookmarks = SetItem(@, page.titulo, page.url)], page, opened)

\* remover_favorito(), lines 90-110: the first title stored with the URL
remover_favorito(m, page, opened) ==
    IF ~\E i \in 1..Len(m.bookmarks) : m.bookmarks[i].url = page.url
    THEN m
    ELSE LET first == CHOOSE i \in 1..Len(m.bookmarks) :
                          /\ m.bookmarks[i].url = page.url
                          /\ \A j \in 1..(i - 1) : m.bookmarks[j].url # page.url
         IN  salvar_e_atualizar(
                 [m EXCEPT !.bookmarks = DelItem(@, m.bookmarks[first].titulo)],
                 page, opened)

\* toggle_favorito(), lines 53-68
toggle_favorito(m, page, opened) ==
    IF ~page.webview
    THEN m
    ELSE IF IsBookmarked(m.bookmarks, page.url)
    THEN remover_favorito(m, page, opened)
    ELSE adicionar_favorito(m, page, opened)

\* what does not belong to the bookmarks
exceptMarks == <<gopherVars, win, hist, proxy, icpt, ai, tamper>>

\* btn_toggle_favorito.clicked with the current tab showing page
ToggleFavorito(page, opened) ==
    /\ marks' = [toggle_favorito(marks, page, opened) EXCEPT
                    !.last = [op |-> "toggle_favorito", page |-> page,
                              before |-> marks.bookmarks]]
    /\ UNCHANGED exceptMarks

MarksNext ==
    \E page \in CurrentPages, opened \in BOOLEAN : ToggleFavorito(page, opened)

MarksSpec == Init /\ [][MarksNext]_vars

\* requests.request returns or raises (timeout=15), the main thread runs
\* its event loop and a thread asked to quit ends
TamperFairSpec == TamperSpec /\ WF_vars(TamperStep)

\* the API call of a worker that is running returns or raises
AiFairSpec == AiSpec /\ WF_vars(AiThreadStep)

(***************************************************************************)
(* Properties.                                                              *)
(***************************************************************************)
\* the record of a call that is under way or has just returned
Live(n) == nav[n].url # <<>>

\* C1: a failure at any stage of a navigation (URL parsing, connect, write,
\* read) ends with the error document handed to the sink, once, and with the
\* call returned to its caller; no exception leaves handle_gopher_request.
C1_FailureYieldsErrorDocument ==
    /\ ~escaped
    /\ \A n \in NavIds :
          /\ nav[n].state # "Faulted"
          /\ nav[n].exc # "none" =>
                /\ nav[n].state = "Errored"
                /\ nav[n].sink = "error"
                /\ nav[n].sinkCalls = 1
                /\ uiThread # n
          /\ nav[n].state = "Errored" => nav[n].sinkCalls = 1

C1_Witness ==
    \E n \in NavIds :
        /\ nav[n].state = "Errored"
        /\ nav[n].exc = "ValueError"
        /\ nav[n].sink = "error"

AllowedSteps ==
    {<<"Idle", "Connecting">>, <<"Idle", "Errored">>,
     <<"Connecting", "Requesting">>, <<"Connecting", "Errored">>,
     <<"Requesting", "Reading">>, <<"Requesting", "Errored">>,
     <<"Reading", "Reading">>, <<"Reading", "Rendered">>, <<"Reading", "Errored">>}

\* C2: a navigation moves Idle, Connecting, Requesting, Reading in that order
\* and ends in Rendered or Errored; nothing is read before the request is
\* written, nothing is written before the connection is made, and after
\* Rendered or Errored the navigation touches neither a socket nor the sink.
C2_StateOrder ==
    [][\A n \in NavIds :
          /\ nav'[n].state # nav[n].state =>
                <<nav[n].state, nav'[n].state>> \in AllowedSteps
          /\ nav'[n].response_data # <<>> => nav'[n].sends = 1
          /\ nav'[n].state \in {"Reading", "Rendered"} => nav'[n].sends = 1
          /\ nav'[n].sends > 0 => nav'[n].connects = 1 /\ nav'[n].sock # 0
          /\ nav[n].state \in Terminal =>
                /\ nav'[n].state = nav[n].state
                /\ nav'[n].sinkCalls = nav[n].sinkCalls
                /\ nav'[n].connects = nav[n].connects
                /\ nav'[n].sends = nav[n].sends
                /\ nav'[n].sock = nav[n].sock
                /\ nav[n].sock \notin sockets'
      ]_vars

C2_Witness ==
    \E n \in NavIds :
        /\ nav[n].state = "Rendered"
        /\ nav[n].response_data # <<>>
        /\ nav[n].sends = 1

\* C3 as stated: every navigation that is under way eventually reaches
\* Rendered or Errored, whatever the server does.
C3_AlwaysTerminates ==
    \A n \in NavIds :
        (nav[n].state \in InProgress) ~> (nav[n].state \in Terminal)

\* C3 as amended: every navigation that is under way eventually reaches
\* Rendered or Errored unless it is connected to a server that never stops
\* sending.
C3_TerminatesUnlessStreaming ==
    \A n \in NavIds :
        (nav[n].state \in InProgress)
            ~> (nav[n].state \in Terminal \/ nav[n].server = "streaming")

C3_Witness ==
    \E n \in NavIds :
        /\ nav[n].server = "finite"
        /\ nav[n].state = "Errored"
        /\ nav[n].exc = "timeout"
        /\ nav[n].response_data # <<>>

\* C4: whenever no navigation is in progress no socket is open, and the
\* socket of a navigation that has ended, whichever way, is closed.
C4_NoSocketLeak ==
    /\ (\A n \in NavIds : nav[n].state \notin InProgress) => sockets = {}
    /\ \A n \in NavIds : nav[n].state \notin InProgress => nav[n].sock \notin sockets

C4_Witness ==
    \E n \in NavIds :
        /\ nav[n].state = "Errored"
        /\ nav[n].exc = "ConnectionResetError"
        /\ nav[n].sock # 0
        /\ sockets = {}

\* C5 as stated: the fetch of a navigation never runs on the UI thread.
C5_FetchOffUIThread ==
    \A n \in NavIds : nav[n].state \in InProgress => uiThread # n

\* C6: a navigation connects at most once and sends at most once, on a socket
\* opened for it alone; a failed navigation has not tried twice.
C6_SingleAttempt ==
    \A n \in NavIds :
        /\ nav[n].connects <= 1
        /\ nav[n].sends <= 1
        /\ nav[n].sends > 0 => nav[n].sock # 0
        /\ nav[n].sock # 0 => nav[n].connects = 1
        /\ \A m \in NavIds : m # n /\ nav[n].sock # 0 => nav[m].sock # nav[n].sock

C6_Witness ==
    \E m, n \in NavIds :
        /\ m < n
        /\ nav[m].state = "Errored"
        /\ nav[m].connects = 1
        /\ nav[n].sock # 0
        /\ nav[n].sends = 1

\* C7: at most one fetch is in flight: a navigation starts only after every
\* earlier one has reached Rendered or Errored, and at most one socket is open.
C7_OneFetchAtATime ==
    /\ Cardinality({n \in NavIds : nav[n].state \in InProgress}) <= 1
    /\ Cardinality(sockets) <= 1
    /\ \A m, n \in NavIds :
          m < n /\ nav[n].state # "Idle" => nav[m].state \in Terminal

C7_Witness ==
    \E m, n \in NavIds :
        /\ m < n
        /\ nav[m].state \in Terminal
        /\ nav[n].state = "Reading"
        /\ sockets = {nav[n].sock}

\* C8 as stated: the parsed host, port and selector equal the literal
\* components of the URL, the port being 70 when it is left out.
C8_ParseMatchesLiteral ==
    \A n \in NavIds :
        nav[n].state = "Connecting" /\ nav[n].lit # NoLiteral =>
            /\ nav[n].host = nav[n].lit.host
            /\ nav[n].port = IF nav[n].lit.port = Absent THEN 70
                             ELSE IntOf(nav[n].lit.port)
            /\ nav[n].selector = nav[n].lit.path

\* C9 as stated: an address used to connect has a port in 1..65535 and, when
\* it has an item type, one of exactly one character.
C9_AddressValid ==
    \A n \in NavIds :
        Live(n) /\ nav[n].connects > 0 =>
            /\ nav[n].port \in 1..65535
            /\ nav[n].gopher_type # None => Len(nav[n].gopher_type) = 1

\* C10: what a navigation writes to its socket is the UTF-8 bytes of the
\* parsed selector followed by CR LF, written once; it never holds the
\* "?gopher_type=" part, and it is CR LF alone for a URL without a path.
C10_RequestIsSelectorCRLF ==
    \A n \in NavIds :
        Live(n) =>
            /\ nav[n].sends = 0 => nav[n].sent = <<>>
            /\ nav[n].sends > 0 =>
                  /\ nav[n].sends = 1
                  /\ nav[n].sent = Utf8(nav[n].selector) \o <<13, 10>>
                  /\ ~Contains(nav[n].sent, Utf8(TypeMark))
                  /\ nav[n].lit.path = <<>> => nav[n].sent = <<13, 10>>

C10_Witness ==
    \E n \in NavIds :
        /\ nav[n].sends = 1
        /\ nav[n].lit.typ = <<"I">>
        /\ nav[n].sent = <<47, 195, 169, 58, 98, 13, 10>>

RECURSIVE Flatten(_)
\* the concatenation of a sequence of sequences, in order
Flatten(ss) == IF ss = <<>> THEN <<>> ELSE Head(ss) \o Flatten(Tail(ss))

C12_RendererChoice ==
    \A n \in NavIds :
        Live(n) /\ nav[n].state = "Rendered" =>
            IF nav[n].lit.typ \in {<<"g">>, <<"I">>, <<"p">>}
            THEN /\ nav[n].call.fn = "_parse_image_to_html"
                 /\ nav[n].call.gopher_type = nav[n].lit.typ
                 /\ nav[n].renderer = "image"
            ELSE /\ nav[n].call.fn = "_parse_gopher_map_to_html"
                 /\ nav[n].call.host = nav[n].host
                 /\ nav[n].call.port = nav[n].port
                 /\ nav[n].renderer = "menu"

C12_Witness ==
    \E n \in NavIds :
        /\ nav[n].state = "Rendered"
        /\ nav[n].lit.typ = <<"I", "g">>
        /\ nav[n].call.fn = "_parse_gopher_map_to_html"
        /\ nav[n].call.host = <<"h">>
        /\ nav[n].call.port = 70

\* C13 as stated: the base URL handed to the sink with a rendered document
\* is the URL string the caller supplied.
C13_BaseIsCallerUrl ==
    \A n \in NavIds :
        Live(n) /\ nav[n].state = "Rendered" => nav[n].sinkBase = nav[n].url

(***************************************************************************)
(* Properties of _parse_gopher_map_to_html, under MenuSpec.                 *)
(***************************************************************************)
\* the line written from an item holds no character at which a line breaks
BreakFree(item) ==
    \A i \in 1..Len(RawLine(item)) : RawLine(item)[i] \notin LineBoundaries

\* every line of the text is one line and the call has returned
PlainMenu == menu.returned /\ \A k \in 1..Len(menu.items) : BreakFree(menu.items[k])

\* a line of length >= 2
IsLong(item) == Len(RawLine(item)) >= 2

\* the place in html_lines of the block of the k-th line of a plain menu
BlockIndex(k) ==
    4 + Cardinality({j \in 1..k : IsLong(menu.items[j])})

BlockOf(k) == menu.html_lines[BlockIndex(k)]

AnchorOpens ==
    {AnchorOpen(icon) : icon \in {"U+1F4C4", "U+1F4C1", "U+1F310", "U+1F5BC U+FE0F",
                                  "U+2753"}}

\* where the links of a block start
LinkStarts(block) == {i \in 1..Len(block) : block[i] \in AnchorOpens}

\* the target of the link that starts at i: what stands between href=" and ">
LinkTarget(block, i) ==
    LET j == CHOOSE x \in (i + 1)..Len(block) :
                 /\ block[x] = "\">"
                 /\ \A y \in (i + 1)..(x - 1) : block[y] # "\">"
    IN  SubSeq(block, i + 1, j - 1)

\* the block has exactly one link, and it points to target
HasOneLinkTo(block, target) ==
    /\ Cardinality(LinkStarts(block)) = 1
    /\ \A i \in LinkStarts(block) : LinkTarget(block, i) = target

\* the only link of a block
OnlyLink(block) == LinkTarget(block, CHOOSE i \in LinkStarts(block) : TRUE)

\* a line that is rendered as a gopher link
IsGopherLinkItem(item) == IsLong(item) /\ item.t \notin {"i", "h"}

\* the fields of a line as the renderer resolves them
ItemSelector(item) == IF Len(item.f) >= 1 THEN item.f[1] ELSE <<>>
ItemHost(item) == IF Len(item.f) >= 2 THEN item.f[2] ELSE menu.current_host
ItemPort(item) == IF Len(item.f) >= 3 THEN IntOf(item.f[3]) ELSE menu.current_port

\* decimal texts of a port
PortTexts == {<<"7">>, <<"7", "0">>, <<"0">>, <<"7", "1">>}

\* C14: every line of length >= 2 whose type is neither i nor h is rendered
\* as one block with exactly one link, whose target is
\* gopher://{host}:{port}{selector}?gopher_type={the line's own type}.
C14_OneGopherLinkPerLine ==
    PlainMenu =>
        \A k \in 1..Len(menu.items) :
            IsGopherLinkItem(menu.items[k]) =>
                \E P \in PortTexts :
                    /\ IntOf(P) = ItemPort(menu.items[k])
                    /\ HasOneLinkTo(BlockOf(k),
                           <<"g", "o", "p", "h", "e", "r", ":", "/", "/">>
                           \o ItemHost(menu.items[k]) \o <<":">> \o P
                           \o ItemSelector(menu.items[k])
                           \o <<"?", "g", "o", "p", "h", "e", "r", "_", "t", "y", "p",
                                "e", "=">>
                           \o <<menu.items[k].t>>)

C14_Witness ==
    /\ menu.returned
    /\ Len(menu.items) = 2
    /\ menu.items[1].t = "g"
    /\ menu.items[2].t = "7"
    /\ menu.items[2].f = FullFields
    /\ Len(menu.html_lines) = 7
    /\ OnlyLink(menu.html_lines[6]) =
           Scheme \o <<"x", ":", "7", "/", "a">> \o TypeMark \o <<"7">>

\* C15 as stated: parsing an emitted gopher link the way handle_gopher_request
\* does gives back the host, port, selector and item type of the menu line.
C15_LinkRoundTrip ==
    PlainMenu =>
        \A k \in 1..Len(menu.items) :
            IsGopherLinkItem(menu.items[k]) =>
                LET p == ParseGopherUrl(OnlyLink(BlockOf(k)))
                IN  /\ p.exc = "none"
                    /\ p.host = ItemHost(menu.items[k])
                    /\ p.port = ItemPort(menu.items[k])
                    /\ p.selector = ItemSelector(menu.items[k])
                    /\ p.gopher_type = <<menu.items[k].t>>

\* C16 as stated: for a line of type h whose selector is "URL:" followed by
\* u, the link of its block points to u.
C16_UrlPrefixStrippedOnce ==
    PlainMenu =>
        \A k \in 1..Len(menu.items) :
            /\ menu.items[k].t = "h"
            /\ Len(menu.items[k].f) >= 1
            /\ StartsWith(menu.items[k].f[1], <<"U", "R", "L", ":">>)
            => HasOneLinkTo(BlockOf(k), DropFirst(menu.items[k].f[1], 4))

\* C17: a line without a port field gets current_port in its link, a line
\* without a host field gets current_host, neither is empty, and a line
\* without a selector field gets the empty selector.
C17_MissingFieldsDefault ==
    PlainMenu =>
        \A k \in 1..Len(menu.items) :
            IsGopherLinkItem(menu.items[k]) /\ Len(menu.items[k].f) < 3 =>
                \E P \in PortTexts :
                    LET host == IF Len(menu.items[k].f) = 2 THEN menu.items[k].f[2]
                                ELSE menu.current_host
                        selector == IF Len(menu.items[k].f) = 0 THEN <<>>
                                    ELSE menu.items[k].f[1]
                    IN  /\ IntOf(P) = menu.current_port
                        /\ host # <<>>
                        /\ OnlyLink(BlockOf(k)) =
                              Scheme \o host \o <<":">> \o P \o selector \o TypeMark
                              \o <<menu.items[k].t>>

C17_Witness ==
    /\ menu.returned
    /\ Len(menu.items) = 1
    /\ menu.items[1].t = "1"
    /\ menu.items[1].f = <<>>
    /\ menu.items[1].d = <<"A">>
    /\ OnlyLink(menu.html_lines[5]) =
           Scheme \o <<"h", ":", "7", "0">> \o TypeMark \o <<"1">>

RECURSIVE SelectLong(_)
\* the items whose line has length >= 2
SelectLong(items) ==
    IF items = <<>> THEN <<>>
    ELSE (IF IsLong(Head(items)) THEN <<Head(items)>> ELSE <<>>)
         \o SelectLong(Tail(items))

\* C18: the document of a text is the document of the same text without its
\* lines shorter than 2 characters; a text of such lines alone has no block.
C18_ShortLinesSkipped ==
    menu.returned =>
        /\ menu.html_lines =
              HtmlLines(TextOf(SelectLong(menu.items)), menu.current_host,
                        menu.current_port)
        /\ SelectLong(menu.items) = <<>> => Len(menu.html_lines) = 5

C18_Witness ==
    /\ menu.returned
    /\ Len(menu.items) = 2
    /\ RawLine(menu.items[1]) = <<"1">>
    /\ menu.items[2].t = "0"
    /\ Len(menu.html_lines) = 6

\* a trailing CR removed
StripCR(line) ==
    IF line # <<>> /\ line[Len(line)] = "\r" THEN SubSeq(line, 1, Len(line) - 1)
    ELSE line

RECURSIVE RenderEach(_, _, _)
\* one block for each line of length >= 2, in order
RenderEach(lines, current_host, current_port) ==
    IF lines = <<>> THEN <<>>
    ELSE (IF Len(StripCR(Head(lines))) >= 2
          THEN <<RenderLine(StripCR(Head(lines)), current_host, current_port)>>
          ELSE <<>>)
         \o RenderEach(Tail(lines), current_host, current_port)

\* C19 as stated: the blocks of the document are those of the "\n"-separated
\* lines of length >= 2 (a trailing CR removed), one each, in input order.
C19_OneBlockPerNewlineLine ==
    menu.returned =>
        LET lines == Split(TextOf(menu.items), <<"\n">>)
        IN  /\ Len(menu.html_lines) - 5 =
                  Cardinality({i \in 1..Len(lines) : Len(StripCR(lines[i])) >= 2})
            /\ menu.html_lines =
                  HtmlHead \o RenderEach(lines, menu.current_host, menu.current_port)
                  \o HtmlFoot

(***************************************************************************)
(* Properties of _parse_image_to_html, under ImageSpec.                     *)
(***************************************************************************)
\* the value of a base64 character
B64Value(c) == (CHOOSE i \in 1..64 : B64Alphabet[i] = c) - 1

RECURSIVE B64Decode(_)
\* the bytes a base64 text stands for; <<-1>> marks a text that is not one
B64Decode(cs) ==
    IF cs = <<>> THEN <<>>
    ELSE IF Len(cs) < 4 \/ cs[1] = "=" \/ cs[2] = "=" THEN <<-1>>
    ELSE IF cs[3] = "="
    THEN IF Len(cs) = 4 /\ cs[4] = "=" /\ B64Value(cs[2]) % 16 = 0
         THEN <<B64Value(cs[1]) * 4 + B64Value(cs[2]) \div 16>>
         ELSE <<-1>>
    ELSE IF cs[4] = "="
    THEN IF Len(cs) = 4 /\ B64Value(cs[3]) % 4 = 0
         THEN <<B64Value(cs[1]) * 4 + B64Value(cs[2]) \div 16,
                (B64Value(cs[2]) % 16) * 16 + B64Value(cs[3]) \div 4>>
         ELSE <<-1>>
    ELSE <<B64Value(cs[1]) * 4 + B64Value(cs[2]) \div 16,
           (B64Value(cs[2]) % 16) * 16 + B64Value(cs[3]) \div 4,
           (B64Value(cs[3]) % 4) * 64 + B64Value(cs[4])>>
         \o B64Decode(DropFirst(cs, 4))

\* where ";base64," stands in the document
PayloadMark == CHOOSE i \in 1..Len(image.html) : image.html[i] = ";base64,"

\* C20: the document embeds one data URI; its MIME type is image/gif for
\* 'g', image/jpeg for 'I', image/png for 'p' and application/octet-stream
\* for any other type, and its base64 payload decodes to the input bytes.
C20_DataUriRoundTrip ==
    image.returned =>
        /\ Cardinality({i \in 1..Len(image.html) : image.html[i] = ";base64,"}) = 1
        /\ image.html[PayloadMark - 2] = "<img src=\"data:"
        /\ image.html[PayloadMark - 1] =
              (IF image.gopher_type = <<"g">> THEN "image/gif"
               ELSE IF image.gopher_type = <<"I">> THEN "image/jpeg"
               ELSE IF image.gopher_type = <<"p">> THEN "image/png"
               ELSE "application/octet-stream")
        /\ image.html[Len(image.html)] = "\"></body></html>"
        /\ B64Decode(SubSeq(image.html, PayloadMark + 1, Len(image.html) - 1))
              = image.image_data

C20_Witness ==
    /\ image.returned
    /\ image.gopher_type = <<"I">>
    /\ image.image_data = <<255, 137, 71, 0>>
    /\ SubSeq(image.html, 2, Len(image.html) - 1) =
           <<"<img src=\"data:", "image/jpeg", ";base64,",
             "/", "4", "l", "H", "A", "A", "=", "=">>

(***************************************************************************)
(* Properties of the tabs, under TabSpec.                                   *)
(***************************************************************************)
\* the tabs of ts without the one at Qt index
WithoutTab(ts, index) ==
    [i \in 1..(Len(ts) - 1) |-> IF i <= index THEN ts[i] ELSE ts[i + 1]]

\* C21 as stated: at least one tab is open; fechar_aba does nothing when
\* fewer than 2 tabs are open and otherwise removes exactly one tab.
C21_CloseRemovesOne ==
    /\ Count(win) >= 1
    /\ win.last.op = "fechar_aba" =>
          IF Len(win.last.before.tabs) < 2
          THEN Snapshot(win) = win.last.before
          ELSE Count(win) = Len(win.last.before.tabs) - 1

\* C21: at least one tab is open; fechar_aba does nothing when fewer than 2
\* tabs are open or when its index names no tab, and otherwise removes
\* exactly the tab at its index.
C21_CloseRemovesNamedTab ==
    /\ Count(win) >= 1
    /\ win.last.op = "fechar_aba" =>
          IF \/ Len(win.last.before.tabs) < 2
             \/ win.last.tab < 0
             \/ win.last.tab >= Len(win.last.before.tabs)
          THEN Snapshot(win) = win.last.before
          ELSE win.tabs = WithoutTab(win.last.before.tabs, win.last.tab)

C21_Witness ==
    /\ win.last.op = "fechar_aba"
    /\ win.last.tab = 1
    /\ Len(win.last.before.tabs) = 3
    /\ Count(win) = 2
    /\ win.tabs[2] = win.last.before.tabs[3]

(***************************************************************************)
(* Properties of the history, under HistSpec.                               *)
(***************************************************************************)
\* C22: no entry of the history has an empty URL or the URL about:blank, no
\* two adjacent entries have the same URL, and a call of
\* adicionar_ao_historico with such a URL, or with the URL of the last
\* entry, leaves the history and the history file as they were.
C22_HistoryWellFormed ==
    /\ \A i \in 1..Len(hist.history) : hist.history[i].url \notin {"", "about:blank"}
    /\ \A i \in 1..(Len(hist.history) - 1) :
           hist.history[i].url # hist.history[i + 1].url
    /\ (/\ hist.last.op = "adicionar_ao_historico"
        /\ \/ hist.last.url \in {"", "about:blank"}
           \/ /\ hist.last.history # <<>>
              /\ hist.last.history[Len(hist.last.history)].url = hist.last.url)
       => hist.history = hist.last.history /\ hist.file = hist.last.file

C22_Witness ==
    /\ hist.last.op = "adicionar_ao_historico"
    /\ hist.last.url = "http://b"
    /\ Len(hist.history) = 2
    /\ hist.history[1].url = "https://a"
    /\ hist.history[2].url = "http://b"
    /\ hist.last.history = hist.history
    /\ hist.file = hist.history

(***************************************************************************)
(* Properties of the proxies, under ProxySpec.                              *)
(***************************************************************************)
\* C23: from index -1 and n >= 1 saved proxies, the k-th successive
\* trocar_proxy call (k <= n) sets the application proxy to the k-th saved
\* proxy and the index to k-1, and the call after the n-th goes back to no
\* proxy and index -1; with no saved proxy trocar_proxy leaves no proxy in
\* use; current_proxy_index is always within -1..len(proxy_list)-1.
C23_ProxyRotation ==
    LET n == Len(proxy.proxy_list)
        k == Len(proxy.run)
    IN  /\ proxy.current_proxy_index >= -1
        /\ proxy.current_proxy_index <= n - 1
        /\ proxy.in_run =>
              /\ k >= 1 /\ k <= n + 1
              /\ \A j \in 1..k :
                    j <= n => /\ proxy.run[j].type = "HttpProxy"
                              /\ proxy.run[j].host = proxy.proxy_list[j].host
                              /\ proxy.run[j].port = PortOf(proxy.proxy_list[j].port)
              /\ k <= n => proxy.current_proxy_index = k - 1
              /\ k = n + 1 => proxy.run[k] = NoProxy /\ proxy.current_proxy_index = -1
              /\ proxy.application_proxy = proxy.run[k]
        /\ (proxy.last = "trocar_proxy" /\ n = 0) => proxy.application_proxy = NoProxy

C23_Witness ==
    /\ Len(proxy.proxy_list) = 2
    /\ proxy.in_run
    /\ Len(proxy.run) = 3
    /\ proxy.run[1].host = "p"
    /\ proxy.run[2].host = "q"
    /\ proxy.run[3] = NoProxy
    /\ proxy.current_proxy_index = -1

(***************************************************************************)
(* Properties of the interceptor, under IcptSpec.                           *)
(***************************************************************************)
\* host is domain, or some text followed by "." and domain
IsDomainOrSubdomain(host, domain) ==
    \/ host = domain
    \/ \E i \in 1..Len(host) :
          /\ host[i] = "."
          /\ SubSeq(host, i + 1, Len(host)) = domain

\* C24: a request is answered by exactly one requestIntercepted; it is
\* blocked, and reported as blocked, exactly when blocking_enabled is true
\* and its host is a domain of the blocklist or ends with "." and the
\* domain; with blocking_enabled false no request is blocked.
C24_BlockedIffListed ==
    icpt.handled =>
        LET listed == \E domain \in icpt.blocklist : IsDomainOrSubdomain(icpt.host, domain)
        IN  /\ Len(icpt.emitted) = 1
            /\ icpt.emitted[1].blocked = (icpt.blocking_enabled /\ listed)
            /\ icpt.block_called = (icpt.blocking_enabled /\ listed)
            /\ ~icpt.blocking_enabled => ~icpt.block_called

C24_Witness ==
    /\ icpt.handled
    /\ icpt.blocking_enabled
    /\ icpt.blocklist = {<<"b", ".", "c">>}
    /\ icpt.host = <<"a", "b", ".", "c">>
    /\ icpt.emitted = <<[blocked |-> FALSE]>>

(***************************************************************************)
(* Properties of the load and URL events, under LoadSpec.                   *)
(***************************************************************************)
\* the slots of loadStarted, loadProgress, loadFinished and urlChanged
LoadEvents ==
    {"inicio_carregamento", "atualizar_progresso", "fim_carregamento",
     "atualizar_url_bar"}

\* C25: an event of a tab that is not the current tab leaves the progress
\* bar, the URL bar and the security indicator as they were; an event of
\* the current tab updates them: loadStarted shows the bar at 0,
\* loadProgress sets its value, loadFinished hides it, urlChanged writes
\* the URL bar.
C25_OnlyCurrentTabUpdates ==
    win.last.op \in LoadEvents =>
        IF win.last.tab # win.last.before.current
        THEN /\ win.progress_bar = win.last.before.progress_bar
             /\ win.url_bar = win.last.before.url_bar
             /\ win.security = win.last.before.security
        ELSE /\ win.last.op = "inicio_carregamento" =>
                    win.progress_bar = [value |-> 0, visible |-> TRUE]
             /\ win.last.op = "atualizar_progresso" =>
                    win.progress_bar.value = win.last.arg
             /\ win.last.op = "fim_carregamento" => ~win.progress_bar.visible
             /\ win.last.op = "atualizar_url_bar" => win.url_bar = win.last.arg

C25_Witness ==
    /\ win.last.op = "atualizar_url_bar"
    /\ win.last.tab = 0
    /\ win.last.arg = "http://b"
    /\ win.current = 1
    /\ win.tabs[1].url = "http://b"
    /\ win.url_bar = "about:blank"
    /\ win.progress_bar = [value |-> 50, visible |-> TRUE]

\* what a complete run of rodar emits, in order
CompleteEmissions ==
    {<<"resultado_pronto", "finished">>, <<"erro_ocorrido", "finished">>}

\* C26: every run of WorkerIA.rodar that is started emits exactly one of
\* resultado_pronto and erro_ocorrido, then finished, and its thread is
\* asked to quit.
C26_EveryRunFinishes ==
    \A r \in 1..MaxPrompts :
        (r <= Len(ai.runs)) ~>
            (/\ r <= Len(ai.runs)
             /\ ai.runs[r].emitted \in CompleteEmissions
             /\ ai.runs[r].quit_asked)

\* C27: after every send exactly one of _on_response_ready and
\* _on_request_failed runs, and a disabled send button is enabled again.
C27_EverySendAnswered ==
    /\ \A r \in 1..MaxSends :
          (r <= Len(tamper.runs)) ~>
              (r <= Len(tamper.runs) /\ Len(tamper.runs[r].slots) = 1)
    /\ (~tamper.send_button) ~> tamper.send_button

\* the title a URL is stored under, or none
TitlesOf(bookmarks, url) ==
    {bookmarks[i].titulo : i \in {j \in 1..Len(bookmarks) : bookmarks[j].url = url}}

\* the bookmarks as a set of (title, URL)
ItemsOf(bookmarks) == {bookmarks[i] : i \in 1..Len(bookmarks)}

\* C28: starting from no bookmarks and using toggle_favorito only, no
\* URL is stored under two titles; a toggle on a bookmarked URL leaves
\* it not bookmarked; a toggle on a URL that is not bookmarked, with a
\* title and a URL other than about:blank, stores it under the title of
\* the page, in place of what that title held, and touches nothing else.
C28_ToggleFlipsBookmark ==
    LET page == marks.last.page
        before == marks.last.before
        after == marks.bookmarks
    IN  /\ \A url \in BookmarkUrls : Cardinality(TitlesOf(after, url)) <= 1
        /\ \A i, j \in 1..Len(after) : after[i].titulo = after[j].titulo => i = j
        /\ (marks.last.op = "toggle_favorito" /\ page.webview) =>
              /\ IsBookmarked(before, page.url) =>
                    /\ ~IsBookmarked(after, page.url)
                    /\ ItemsOf(after) = {it \in ItemsOf(before) : it.url # page.url}
              /\ (/\ ~IsBookmarked(before, page.url)
                  /\ page.titulo # ""
                  /\ page.url # "about:blank") =>
                    /\ TitlesOf(after, page.url) = {page.titulo}
                    /\ ItemsOf(after) =
                          {it \in ItemsOf(before) : it.titulo # page.titulo}
                              \cup {[titulo |-> page.titulo, url |-> page.url]}

\* a page whose title already holds another URL has been bookmarked, and
\* a bookmarked page has been toggled off while another bookmark stays
C28_Witness ==
    /\ marks.last.op = "toggle_favorito"
    /\ marks.last.page.webview
    /\ ~IsBookmarked(marks.last.before, marks.last.page.url)
    /\ \E i \in 1..Len(marks.last.before) :
          /\ marks.last.before[i].titulo = marks.last.page.titulo
          /\ marks.last.before[i].url # marks.last.page.url
    /\ IsBookmarked(marks.bookmarks, marks.last.page.url)
    /\ Len(marks.bookmarks) = 2
    /\ marks.file # marks.bookmarks

\* C29: the blocking_enabled flag of a tab changes only by a click on
\* the Block button while that tab is the current one, and then to the
\* state clicked; opening or selecting a tab changes the flag of no tab
\* that was open, and a new tab starts with blocking disabled.
C29_BlockerPerTab ==
    LET before == win.last.before
    IN  \A i \in 1..Len(win.tabs) :
            IF i <= Len(before.tabs)
            THEN win.tabs[i].blocking_enabled # before.tabs[i].blocking_enabled =>
                    /\ win.last.op = "toggle_blocker"
                    /\ i - 1 = before.current
                    /\ win.tabs[i].blocking_enabled = win.last.arg
            ELSE ~win.tabs[i].blocking_enabled

\* the user has gone from a tab with blocking on to a tab with blocking
\* off: the button has been unchecked, toggle_blocker has run again, and
\* the tab left behind still blocks
C29_Witness ==
    /\ win.last.op = "setCurrentIndex"
    /\ win.last.before.current # win.current
    /\ win.last.before.btn_blocker.checked
    /\ ~win.btn_blocker.checked
    /\ win.btn_blocker.text = "Block OFF"
    /\ win.tabs[win.last.before.current + 1].blocking_enabled
    /\ ~win.tabs[win.current + 1].blocking_enabled

====
